---- MODULE Spec2Model ----
(***************************************************************************)
(* A model of the aquiche cache engine: the single-flight cache record     *)
(* (SyncCachedRecord / AsyncCachedRecord), the expiration policies, the    *)
(* LRU repository and the alru_cache wrappers.                             *)
(*                                                                         *)
(* The specifications share the variables:                                 *)
(*   SpecRecord  callers drive get_cached(), destroy() and is_expired() of *)
(*               one record directly (as tests/test_cache.py does);        *)
(*   SpecRepo    add/get sequences on one LRUCacheRepository;              *)
(*   Spec        callers go through the alru_cache wrapper, which looks a  *)
(*               record up in the repository and calls get_cached() on it; *)
(*   SpecSized   the wrappers alru_cache builds for enabled=False and for  *)
(*               maxsize None, negative, 0 and positive;                   *)
(*   SpecClear   cache_clear() while calls of the wrapper are in progress; *)
(*   SpecSweep   sweeps of a cache whose expiration check raises;          *)
(*   SpecDestroy destroy() of a cooperative cache and its sweep task;      *)
(*   SpecAbandon consumers of one cooperative record give up their wait    *)
(*               (SpecAbandonFair: every ready task runs);                 *)
(*   SpecExpiration  one caller, one record and every kind of expiration   *)
(*               policy, asked directly and through the record.            *)
(*   SpecInterleaved, SpecCallsAndDestroy  one record whose destroy() runs *)
(*               while a refresh is in flight (SpecCallsAndDestroyFair:    *)
(*               every caller that can take a step takes it);              *)
(*   SpecCancel  the producer of a cooperative record is cancelled;        *)
(*   SpecExitStacks  one cooperative record with wrap_async_exit_stack on; *)
(*   SpecTwins   a blocking and a cooperative record driven by the same    *)
(*               sequence of calls.                                        *)
(*                                                                         *)
(* Threads of the blocking variant interleave at every step.  Tasks of the *)
(* cooperative variant interleave only where a task suspends: `running`    *)
(* names the task that holds the event loop between two suspension points. *)
(***************************************************************************)
EXTENDS Integers, Sequences, FiniteSets, TLC

\* ------------------------------------------------------------------ bounds
NumCallers == 2
MaxCalls == 3
MaxInvocations == 3
MaxRetries == 1
MaxTime == 1
MaxDestroys == 1
RefreshInterval == 1
NumKeys == 2
NumRepoKeys == 4
MaxSize == 2
MaxOps == 4
MaxClears == 1
SweepPeriod == 1
NumResults == 2
MaxCachedCalls == 2
MaxCachedRetries == 0
MaxCachedSize == 1

None == 0 - 1

\* Who holds a lock or the event loop inside a loop that never ends.
NoCaller == 0

Callers == 1..NumCallers
Records == 1..MaxCalls
Events == 1..MaxCalls
Keys == 1..NumKeys
RepoKeys == 1..NumRepoKeys

VARIABLES
    variant,              \* "sync" (threads) or "async" (event-loop tasks)
    now,                  \* datetime.now(timezone.utc), in ticks
    fail,                 \* CacheTaskExecutionInfo.fail
    retries,              \* CacheTaskExecutionInfo.retries
    expiration,           \* the record's policy for successful values
    negative_expiration,  \* the record's policy for cached errors
    enabled,              \* alru_cache(enabled=...)
    maxsize,              \* alru_cache(maxsize=...), as the wrapper gets it
    wrap_async_exit_stack,\* CacheTaskExecutionInfo.wrap_async_exit_stack
    recs,                 \* record id -> the record's lock and cached value
    exit_stacks,          \* AsyncExitStack (by the value it wraps) -> unused,
                          \* entered or closed
    evSet,                \* the Event objects that have been set
    nevents,              \* Event objects created so far
    calls,                \* invocations of the user function so far
    th,                   \* caller -> its position and local variables
    running,              \* the task holding the event loop, or None
    started,              \* get_cached()/wrapper calls started so far
    destroys,             \* destroy() calls made from outside a fetch
    genStored,            \* Event -> the value its producer stored (history)
    fnSeen,               \* has the user function raised / returned (history)
    lastVerdict,          \* what the last outside is_expired() call returned
    repo,                 \* the LRUCacheRepository: links, root, dict, full
    opLog,                \* the repository operations made so far (history)
    cacheLock,            \* the caller holding the wrapper's lock, or None
    hits,                 \* the wrapper's hit counter
    misses,               \* the wrapper's miss counter
    nrecs,                \* records created by the wrapper so far
    expiry_period,        \* expired_items_auto_removal_period, or None
    last_expiration_check,\* time of the last sweep, None for the epoch
    clears,               \* cache_clear() calls so far
    keysSeen,             \* keys the wrapper was called with (history)
    overlapped,           \* did two wrapper calls ever overlap (history)
    sweepWake,            \* when the background sweeper wakes, None: no task
    fetchingAtClear,      \* records being fetched when cache_clear() or
                          \* destroy() ran (history)
    destroy_event,        \* the cooperative wrapper's destroy_event is set
    destroy_pc            \* where the call of destroy() is: none, join, returned

recVars == <<recs, evSet, nevents, calls, genStored, fnSeen>>
cfgVars == <<variant, fail, retries, expiration, negative_expiration, enabled,
             maxsize, wrap_async_exit_stack>>
wrapVars == <<repo, opLog, hits, misses, nrecs, expiry_period,
              last_expiration_check, clears, keysSeen, overlapped, sweepWake,
              fetchingAtClear,
                   destroy_event, destroy_pc>>
vars == <<variant, now, fail, retries, expiration, negative_expiration, enabled,
          maxsize, wrap_async_exit_stack, recs, exit_stacks,
          evSet, nevents, calls, th, running, started, destroys, genStored,
          fnSeen, lastVerdict, repo, opLog, cacheLock, hits, misses, nrecs,
          expiry_period, last_expiration_check, clears, keysSeen, overlapped,
          sweepWake, fetchingAtClear,
                   destroy_event, destroy_pc>>

\* ------------------------------------------------------------------ values
\* A value the user function produced: the invocation that produced it and
\* whether it is the exception that invocation raised.  id 0 is Python's None.
NoneValue == [id |-> 0, err |-> FALSE]
Produced(n, raised) == [id |-> n, err |-> raised]

\* ------------------------------------------------------- expiration policies
NonExpiring == [kind |-> "NonExpiring", arg |-> 0]
Refreshing(interval) == [kind |-> "Refreshing", arg |-> interval]
BoolPolicy(b) == [kind |-> "Bool", arg |-> IF b THEN 1 ELSE 0]
DatePolicy(expiry) == [kind |-> "Date", arg |-> expiry]

\* (mutation of IsValueExpired: the refresh interval must be exceeded, `>`)
IsValueExpiredLate(policy, cv, t) ==
    CASE policy.kind = "NonExpiring" -> cv.last_fetched = None
      [] policy.kind = "Bool" -> policy.arg = 1
      [] policy.kind = "Date" ->
            IF cv.last_fetched = None THEN TRUE ELSE cv.last_fetched >= policy.arg
      [] policy.kind = "Refreshing" ->
            IF cv.last_fetched = None THEN TRUE
            ELSE (t - cv.last_fetched) > policy.arg

\* (mutation of IsValueExpired: the date is compared with the current time)
IsValueExpiredByClock(policy, cv, t) ==
    CASE policy.kind = "NonExpiring" -> cv.last_fetched = None
      [] policy.kind = "Bool" -> policy.arg = 1
      [] policy.kind = "Date" ->
            IF cv.last_fetched = None THEN TRUE ELSE t >= policy.arg
      [] policy.kind = "Refreshing" ->
            IF cv.last_fetched = None THEN TRUE
            ELSE (t - cv.last_fetched) >= policy.arg

\* CacheExpiration.is_value_expired of the four stateless policies.
IsValueExpired(policy, cv, t) ==
    CASE policy.kind = "NonExpiring" -> cv.last_fetched = None
      [] policy.kind = "Bool" -> policy.arg = 1
      [] policy.kind = "Date" ->
            IF cv.last_fetched = None THEN TRUE ELSE cv.last_fetched >= policy.arg
      [] policy.kind = "Refreshing" ->
            IF cv.last_fetched = None THEN TRUE
            ELSE (t - cv.last_fetched) >= policy.arg

\* ------------------------------------------------------------------ record
\* SyncCachedValue() / AsyncCachedValue() plus the record's lock: its owner,
\* and whether a get_cached() that raised has left it acquired.
EmptyRecord ==
    [lock |-> None, leaked |-> FALSE, last_fetched |-> None,
     value |-> NoneValue, is_error |-> FALSE, inflight |-> None,
     exit_stack |-> None]

\* self.__lock.acquire() can go on: the threading.RLock of the blocking
\* record lets its owner in again, the asyncio.Lock of the cooperative one
\* lets nobody in while it is locked.
CanAcquire(v, r, t) == r.lock = None \/ (v = "sync" /\ r.lock = t)
LockFree(r, t) == CanAcquire(variant, r, t)

\* self.__lock.release(): one acquisition is given back, so a lock that an
\* earlier call of its owner left acquired stays owned.
Released(r) == IF r.leaked THEN r.lock ELSE None

\* (mutation of DestroyValue: the reset also drops the inflight signal)
DestroyValueDropsInflight(r) ==
    [r EXCEPT !.last_fetched = None, !.value = NoneValue, !.is_error = FALSE,
              !.exit_stack = None, !.inflight = None]

\* destroy_value(): reset to the empty form; inflight is left alone.
DestroyValue(r) ==
    [r EXCEPT !.last_fetched = None, !.value = NoneValue, !.is_error = FALSE,
              !.exit_stack = None]

\* (mutation of Destroy: the cached value is replaced by a new empty one,
\* the fetch in flight forgotten)
DestroyForgetsFetch(r) ==
    IF r.last_fetched = None THEN r
    ELSE [EmptyRecord EXCEPT !.lock = r.lock, !.leaked = r.leaked]

\* destroy(): a no-op on a record that was never fetched.
Destroy(r) == IF r.last_fetched = None THEN r ELSE DestroyValue(r)

\* The exit stacks there can be: one for each value the function produces.
ExitStacks == 1..MaxInvocations

\* `await exit_stack.aclose()` of the destroy() calls made on the records
\* `destroyed`: the stack of a fetched record that has one is closed (no
\* close delay is configured); closing a closed stack does nothing.
ExitStacksClosed(st, rs, destroyed) ==
    [h \in ExitStacks |->
        IF \E r \in destroyed :
              rs[r].last_fetched # None /\ rs[r].exit_stack = h
        THEN "closed" ELSE st[h]]

\* __safe_wrap_exit_stack(value) of a successful fetch, with
\* wrap_async_exit_stack=True: the value is entered into a new exit stack,
\* which the record keeps.
SafeWrapExitStack(r, value, ok) ==
    IF wrap_async_exit_stack /\ ok THEN [r EXCEPT !.exit_stack = value.id] ELSE r

\* (mutation of ApplicablePolicy: the two policies are swapped)
ApplicablePolicySwapped(r) == IF r.is_error THEN expiration ELSE negative_expiration

\* is_expired(): the policy chosen by is_error.
ApplicablePolicy(r) == IF r.is_error THEN negative_expiration ELSE expiration

\* ---------------------------------- expiration values and resolved policies
\* A Python value by its type: None, a bool, a timedelta and a datetime (in
\* ticks), a "$.a.b" path string (`path`: its keys), a coroutine function
\* and a plain callable (`ret`: the value a call returns), and a dict.
NoExpiry == [type |-> "none", arg |-> 0]
BoolValue(b) == [type |-> "bool", arg |-> IF b THEN 1 ELSE 0]
Timedelta(n) == [type |-> "timedelta", arg |-> n]
Datetime(n) == [type |-> "datetime", arg |-> n]
PathString(keys) == [type |-> "str", path |-> keys]
CoroutineFunction(ret) == [type |-> "coroutinefunction", ret |-> ret]
Function(ret) == [type |-> "callable", ret |-> ret]
Dict(items) == [type |-> "dict", items |-> items]
\* A list: a value of none of the types get_cache_expiration() knows.
ListValue == [type |-> "list", arg |-> 0]

\* The policies that look into the cached value.
SyncAttribute(path) == [kind |-> "SyncAttribute", path |-> path]
SyncFunc(ret) == [kind |-> "SyncFunc", ret |-> ret]
AsyncAttribute(path) == [kind |-> "AsyncAttribute", path |-> path]
AsyncFunc(ret) == [kind |-> "AsyncFunc", ret |-> ret]

\* isinstance(policy, AsyncCacheExpiration)
IsAsyncCacheExpiration(policy) == policy.kind \in {"AsyncAttribute", "AsyncFunc"}

\* get_cache_expiration(value, prefer_async)
GetCacheExpiration(value, prefer_async) ==
    LET Is(policy) == [err |-> "none", policy |-> policy] IN
    CASE value.type = "none" -> Is(NonExpiring)
      [] value.type = "bool" -> Is(BoolPolicy(value.arg = 1))
      [] value.type = "str" ->
            Is(IF prefer_async THEN AsyncAttribute(value.path)
                               ELSE SyncAttribute(value.path))
      [] value.type = "datetime" -> Is(DatePolicy(value.arg))
      [] value.type = "timedelta" -> Is(Refreshing(value.arg))
      [] value.type = "coroutinefunction" -> Is(AsyncFunc(value.ret))
      [] value.type = "callable" ->
            Is(IF prefer_async THEN AsyncFunc(value.ret) ELSE SyncFunc(value.ret))
      [] OTHER -> [err |-> "InvalidExpirationType", policy |-> NonExpiring]

\* MissingValue(default_value)
MissingValue == [type |-> "MissingValue", arg |-> 0]

\* __deep_get(dictionary, key_path): a key the dict lacks, or a step into
\* something that is no dict, gives MissingValue.
RECURSIVE DeepGet(_, _)
DeepGet(d, keys) ==
    IF keys = <<>> THEN d
    ELSE DeepGet(IF d.type = "dict" /\ Head(keys) \in DOMAIN d.items
                 THEN d.items[Head(keys)] ELSE MissingValue,
                 Tail(keys))

\* __rgetattr(obj, path): none of the values above has an attribute of a
\* path's name, so getattr raises AttributeError and the default is returned.
RGetAttr(obj, keys) == MissingValue

\* (mutation of ExtractFromObj: a missing value is returned as None)
ExtractFromObjDefaults(obj, keys) ==
    LET value == IF obj.type = "dict" THEN DeepGet(obj, keys)
                 ELSE RGetAttr(obj, keys)
    IN [err |-> "none",
        value |-> IF value.type = "MissingValue" THEN NoExpiry ELSE value]

\* extract_from_obj(obj, attribute_path), check_attribute_exists=True; the
\* path is given by its keys, "$." stripped.
ExtractFromObj(obj, keys) ==
    LET value == IF obj.type = "dict" THEN DeepGet(obj, keys)
                 ELSE RGetAttr(obj, keys)
    IN IF value.type = "MissingValue"
       THEN [err |-> "ExtractionError", value |-> NoExpiry]
       ELSE [err |-> "none", value |-> value]

\* (mutation of ValidateSyncExpirationRaises: nothing is rejected)
ValidateSyncExpirationAccepts(policy) == FALSE

\* _validate_sync_expiration(cache_expiration, value) raises
\* InvalidSyncExpirationType.
ValidateSyncExpirationRaises(policy) == IsAsyncCacheExpiration(policy)

\* is_value_expired(value) of any policy: "expired", "fresh", or the exception
\* raised.  The attribute and predicate policies resolve the value they find
\* to a policy and ask that one; the blocking ones validate it first (a
\* cooperative policy that was let through would hand back its coroutine).
RECURSIVE IsValueExpiredOutcome(_, _, _)
IsValueExpiredOutcome(policy, cv, t) ==
    IF policy.kind \in {"NonExpiring", "Bool", "Date", "Refreshing"}
    THEN IF IsValueExpired(policy, cv, t) THEN "expired" ELSE "fresh"
    ELSE LET blocking == policy.kind \in {"SyncAttribute", "SyncFunc"}
             found == IF policy.kind \in {"SyncAttribute", "AsyncAttribute"}
                      THEN ExtractFromObj(cv.value, policy.path)
                      ELSE IF cv.last_fetched = None
                      THEN [err |-> "AssertionError", value |-> NoExpiry]
                      ELSE [err |-> "none", value |-> policy.ret]
             resolved == GetCacheExpiration(found.value, ~blocking)
         IN IF found.err # "none" THEN found.err
            ELSE IF resolved.err # "none" THEN resolved.err
            ELSE IF blocking /\ ValidateSyncExpirationRaises(resolved.policy)
            THEN "InvalidSyncExpirationType"
            ELSE IF blocking /\ IsAsyncCacheExpiration(resolved.policy)
            THEN "coroutine"
            ELSE IsValueExpiredOutcome(resolved.policy, cv, t)

\* record.is_expired(): False before the first fetch, else what the policy
\* chosen by is_error says or raises.
IsExpiredOutcome(r, t) ==
    IF r.last_fetched = None THEN "fresh"
    ELSE IsValueExpiredOutcome(ApplicablePolicy(r), r, t)

\* is_expired() raises.
IsExpiredRaises(r, t) ==
    IsExpiredOutcome(r, t) \notin {"fresh", "expired", "coroutine"}

\* (mutation of IsExpired: the success policy is used for cached errors too)
IsExpiredIgnoresError(r, t) ==
    IF r.last_fetched = None THEN FALSE
    ELSE IsValueExpired(expiration, r, t)

\* is_expired() as a condition: the truth value of what it returns.
IsExpired(r, t) == IsExpiredOutcome(r, t) \in {"expired", "coroutine"}

\* -------------------------------------------------------- LRUCacheRepository
\* A link is [PREV, NEXT, KEY, RESULT]; links live in `nodes` and are named by
\* their index.  `cache` is the dict from a key to its link (None: no entry).
EmptyLink(self) == [prev |-> self, next |-> self, key |-> None, result |-> None]

\* __init__(maxsize): the root link points at itself; `maxsize or 0`.
RepoInit(size) ==
    [nodes |-> <<EmptyLink(1)>>,
     root |-> 1,
     cache |-> [k \in RepoKeys |-> None],
     maxsize |-> IF size = None THEN 0 ELSE size,
     full |-> FALSE]

\* has(key) and get_size()
RepoHas(rp, key) == rp.cache[key] # None
RepoGetSize(rp) == Cardinality({k \in RepoKeys : rp.cache[k] # None})

\* (mutation of IsFull: the repository never counts as full)
IsFullNever(rp) == FALSE

\* `(self.__maxsize != 0) and self.get_size() >= self.__maxsize`
IsFull(rp) == rp.maxsize # 0 /\ RepoGetSize(rp) >= rp.maxsize

\* The new link of add() and add_no_adjust(): appended before the root.
AppendLink(rp, key, value) ==
    LET last == rp.nodes[rp.root].prev
        link == Len(rp.nodes) + 1
        n1 == Append(rp.nodes, [prev |-> last, next |-> rp.root,
                                key |-> key, result |-> value])
        n2 == [n1 EXCEPT ![last].next = link]
        n3 == [n2 EXCEPT ![rp.root].prev = link]
        linked == [rp EXCEPT !.nodes = n3, !.cache[key] = link]
    IN [linked EXCEPT !.full = IsFull(linked)]

\* The full branch of add(): the key whose dict entry is deleted.
OldKey(rp, key) ==
    LET next == rp.nodes[rp.root].next
    IN IF next = rp.root THEN key ELSE rp.nodes[next].key

\* `del self.__cache[old_key]` raises KeyError when the dict has no such key.
RepoAddRaises(rp, key) ==
    /\ ~RepoHas(rp, key)
    /\ rp.full
    /\ LET old_key == OldKey(rp, key)
       IN old_key = None \/ rp.cache[old_key] = None

\* (mutation of RepoAdd: a full repository drops the new key instead of the
\* oldest one)
RepoAddKeepsOldest(rp, key, value) ==
    IF RepoHas(rp, key) THEN rp
    ELSE IF rp.full THEN rp
    ELSE AppendLink(rp, key, value)

\* add(key, value)
RepoAdd(rp, key, value) ==
    IF RepoHas(rp, key) THEN rp
    ELSE IF rp.full
    THEN LET old_root == rp.root
             n1 == [rp.nodes EXCEPT ![old_root].key = key,
                                    ![old_root].result = value]
             root == n1[old_root].next
             old_key == n1[root].key
             n2 == [n1 EXCEPT ![root].key = None, ![root].result = None]
         IN IF RepoAddRaises(rp, key)
            THEN [rp EXCEPT !.nodes = n2]
            ELSE [rp EXCEPT !.nodes = n2,
                            !.cache = [@ EXCEPT ![old_key] = None,
                                                ![key] = old_root],
                            !.root = root]
    ELSE AppendLink(rp, key, value)

\* get_no_adjust(key): the stored result, or None.
RepoGetNoAdjust(rp, key) ==
    IF rp.cache[key] = None THEN None ELSE rp.nodes[rp.cache[key]].result

\* add_no_adjust(key, value): no has() check.
RepoAddNoAdjust(rp, key, value) == AppendLink(rp, key, value)

\* (mutation of RepoGet: the link stays where it is in the queue)
RepoGetStaysInPlace(rp, key) == rp

\* get(key): the link is moved to the front of the circular queue.
RepoGet(rp, key) ==
    LET link == rp.cache[key] IN
    IF link = None THEN rp
    ELSE LET link_prev == rp.nodes[link].prev
             link_next == rp.nodes[link].next
             n1 == [rp.nodes EXCEPT ![link_prev].next = link_next]
             n2 == [n1 EXCEPT ![link_next].prev = link_prev]
             last == n2[rp.root].prev
             n3 == [n2 EXCEPT ![last].next = link]
             n4 == [n3 EXCEPT ![rp.root].prev = link]
             n5 == [n4 EXCEPT ![link].prev = last]
             n6 == [n5 EXCEPT ![link].next = rp.root]
         IN [rp EXCEPT !.nodes = n6]

\* (mutation of RepoClear: the root link is reset, the dict is not emptied)
RepoClearKeepsDict(rp) ==
    [rp EXCEPT !.nodes = [@ EXCEPT ![rp.root] = EmptyLink(rp.root)]]

\* clear(): the dict is emptied and the root link reset; __full is not.
RepoClear(rp) ==
    [rp EXCEPT !.cache = [k \in RepoKeys |-> None],
               !.nodes = [@ EXCEPT ![rp.root] = EmptyLink(rp.root)]]

\* The results every() applies its function to.
RepoValues(rp) ==
    {rp.nodes[rp.cache[k]].result : k \in {j \in RepoKeys : rp.cache[j] # None}}

\* __delete_node(link): the walk from the root to the link before `link`
\* (None: the walk never finds it).
RECURSIVE WalkTo(_, _, _, _)
WalkTo(nodes, link_iter, link, fuel) ==
    IF nodes[link_iter].next = link THEN link_iter
    ELSE IF fuel = 0 THEN None
    ELSE WalkTo(nodes, nodes[link_iter].next, link, fuel - 1)

\* __delete_node(link): only the NEXT field of the link before it is fixed;
\* PREV fields and __full stay as they were.
DeleteNode(rp, link) ==
    LET link_next == rp.nodes[link].next
        key == rp.nodes[link].key
        root == IF rp.root = link THEN link_next ELSE rp.root
        link_iter == WalkTo(rp.nodes, root, link, Len(rp.nodes))
    IN IF link_iter = None
       THEN [repo |-> [rp EXCEPT !.root = root], err |-> "hang"]
       ELSE LET n1 == [rp.nodes EXCEPT ![link_iter].next = link_next]
                unlinked == [rp EXCEPT !.root = root, !.nodes = n1]
            IN IF key = None \/ rp.cache[key] = None
               THEN [repo |-> unlinked, err |-> "KeyError"]
               ELSE [repo |-> [unlinked EXCEPT !.cache[key] = None],
                     err |-> "none"]

\* filter(condition): `keep` is the set of results the condition holds for
\* and `raising` the set of those it raises for.  An exception out of the
\* condition ends the loop: the links deleted so far stay deleted and the
\* list of removed items is lost with the frame (`failed`: the result the
\* condition raised for).
RECURSIVE FilterLoop(_, _, _, _, _, _)
FilterLoop(rp, link, keep, raising, removed, fuel) ==
    IF link = rp.root
    THEN [repo |-> rp, removed |-> removed, err |-> "none", failed |-> None]
    ELSE IF fuel = 0
    THEN [repo |-> rp, removed |-> removed, err |-> "hang", failed |-> None]
    ELSE IF rp.nodes[link].result \in raising
    THEN [repo |-> rp, removed |-> {}, err |-> "condition",
          failed |-> rp.nodes[link].result]
    ELSE IF rp.nodes[link].result \in keep
    THEN FilterLoop(rp, rp.nodes[link].next, keep, raising, removed, fuel - 1)
    ELSE LET d == DeleteNode(rp, link) IN
         IF d.err # "none"
         THEN [repo |-> d.repo, removed |-> removed, err |-> d.err,
               failed |-> None]
         ELSE FilterLoop(d.repo, d.repo.nodes[link].next, keep, raising,
                         removed \cup {rp.nodes[link].result}, fuel - 1)

RepoFilter(rp, keep, raising) ==
    FilterLoop(rp, rp.nodes[rp.root].next, keep, raising, {}, Len(rp.nodes))

\* ------------------------------------------------------------------ callers
IdleThread ==
    [pc |-> "idle", rec |-> 1, path |-> "direct", key |-> 0, role |-> "none",
     ev |-> None, sev |-> None, pend |-> NoneValue, pendOk |-> FALSE,
     retry_iter |-> 0, ninv |-> 0, outcome |-> "none", result |-> NoneValue,
     seen |-> 0]

Rec(t) == recs[th[t].rec]

\* The cooperative variant runs a task until it suspends.
CanRun(t) == variant = "sync" \/ running \in {None, t}
Keep(t, suspends) == IF variant = "async" /\ ~suspends THEN t ELSE None

\* get_cached() ends: `outcome` is "returned" or the exception class raised.
\* Called on a record directly, that ends the call.  In the wrapper a hit is
\* `with lock: return record.get_cached()`, so the wrapper's lock is released
\* and the call ends; a miss that returned goes on to `with lock: cache.add`,
\* and a miss that raised ends there, the record never being added.
Finish(t, outcome, value) ==
    LET goesOn == th[t].path = "miss" /\ outcome = "returned" IN
    /\ th' = [th EXCEPT ![t] = [IdleThread EXCEPT
                  !.pc = IF goesOn THEN "add" ELSE "done",
                  !.rec = th[t].rec, !.path = th[t].path,
                  !.key = th[t].key, !.role = th[t].role, !.ev = th[t].ev,
                  !.ninv = th[t].ninv,
                  !.outcome = IF goesOn THEN "none" ELSE outcome,
                  !.result = value]]
    /\ cacheLock' = IF th[t].path = "hit" THEN None ELSE cacheLock
    /\ running' = IF goesOn THEN Keep(t, cacheLock # None) ELSE None

\* ------------------------------------------------------ get_cached(), by step
\* self.__lock.acquire()
GcAcquire(t) ==
    /\ th[t].pc = "acquire"
    /\ CanRun(t)
    /\ LockFree(Rec(t), t)
    /\ recs' = [recs EXCEPT ![th[t].rec].lock = t]
    /\ th' = [th EXCEPT ![t].pc = "check"]
    /\ running' = Keep(t, FALSE)
    /\ UNCHANGED <<cfgVars, exit_stacks, wrapVars, cacheLock, now, evSet, nevents, calls, started, destroys,
                   genStored, fnSeen, lastVerdict>>

\* (mutation of Branch: the fetch in flight is not looked at)
BranchAlwaysProducer(t) ==
    LET r == th[t].rec IN
    /\ nevents' = nevents + 1
    /\ recs' = [recs EXCEPT ![r].lock = Released(recs[r]), ![r].inflight = nevents + 1]
    /\ th' = [th EXCEPT ![t].pc = "store_check", ![t].ev = nevents + 1,
                        ![t].role = "producer"]
    /\ running' = Keep(t, FALSE)

\* `if inflight is not None: ... else: inflight = Event()`, then release the
\* lock: the caller becomes a consumer of the fetch in flight or the producer
\* of a new one.
Branch(t) ==
    LET r == th[t].rec IN
    IF recs[r].inflight # None
    THEN /\ th' = [th EXCEPT ![t].pc = "wait", ![t].ev = recs[r].inflight,
                             ![t].role = "consumer"]
         /\ recs' = [recs EXCEPT ![r].lock = Released(recs[r])]
         /\ nevents' = nevents
         /\ running' = Keep(t, recs[r].inflight \notin evSet)
    ELSE /\ nevents' = nevents + 1
         /\ recs' = [recs EXCEPT ![r].lock = Released(recs[r]), ![r].inflight = nevents + 1]
         /\ th' = [th EXCEPT ![t].pc = "store_check", ![t].ev = nevents + 1,
                             ![t].role = "producer"]
         /\ running' = Keep(t, FALSE)

\* `if self.__cached_value.last_fetched is not None:`
GcCheck(t) ==
    /\ th[t].pc = "check"
    /\ CanRun(t)
    /\ IF Rec(t).last_fetched # None
       THEN /\ th' = [th EXCEPT ![t].pc = "expiry"]
            /\ running' = Keep(t, FALSE)
            /\ UNCHANGED <<recs, nevents>>
       ELSE Branch(t)
    /\ UNCHANGED <<cfgVars, exit_stacks, wrapVars, cacheLock, now, evSet, calls, started, destroys, genStored,
                   fnSeen, lastVerdict>>

\* `if not self.is_expired(): release; return value`.  An exception out of
\* is_expired() leaves get_cached() with the record's lock still held.
GcExpiry(t) ==
    /\ th[t].pc = "expiry"
    /\ CanRun(t)
    /\ IF IsExpiredRaises(Rec(t), now)
       THEN /\ Finish(t, IsExpiredOutcome(Rec(t), now), NoneValue)
            /\ recs' = [recs EXCEPT ![th[t].rec].leaked = TRUE]
            /\ UNCHANGED nevents
       ELSE /\ IF ~IsExpired(Rec(t), now)
               THEN /\ th' = [th EXCEPT ![t].pc = "ret", ![t].role = "cached"]
                    /\ recs' = [recs EXCEPT ![th[t].rec].lock = Released(Rec(t))]
                    /\ running' = Keep(t, FALSE)
                    /\ UNCHANGED nevents
               ELSE Branch(t)
            /\ UNCHANGED cacheLock
    /\ UNCHANGED <<cfgVars, exit_stacks, wrapVars, now, evSet, calls, started, destroys, genStored,
                   fnSeen, lastVerdict>>

\* __store_cache(): `if inflight is None: raise DeadlockError()`
GcStoreCheck(t) ==
    /\ th[t].pc = "store_check"
    /\ CanRun(t)
    /\ IF Rec(t).inflight = None
       THEN Finish(t, "DeadlockError", NoneValue)
       ELSE /\ th' = [th EXCEPT ![t].pc = "exec", ![t].retry_iter = 0]
            /\ running' = Keep(t, FALSE)
            /\ UNCHANGED cacheLock
    /\ UNCHANGED <<cfgVars, exit_stacks, wrapVars, now, recVars, started, destroys, lastVerdict>>

\* __execute_task(): `self.__get_function()` is called; a coroutine function
\* may suspend before it returns.
GcInvoke(t) ==
    /\ th[t].pc = "exec"
    /\ CanRun(t)
    /\ calls < MaxInvocations
    /\ calls' = calls + 1
    /\ th' = [th EXCEPT ![t].pc = "fn", ![t].ninv = @ + 1,
                        ![t].pend = Produced(calls + 1, FALSE)]
    /\ \E suspends \in BOOLEAN : running' = Keep(t, suspends)
    /\ UNCHANGED <<cfgVars, exit_stacks, wrapVars, cacheLock, now, recs, evSet, nevents, started, destroys,
                   genStored, fnSeen, lastVerdict>>

\* (mutation of ExecuteTaskStep: `>` for `>=`, one retry too many)
ExecuteTaskStepOffByOne(s, raised) ==
    IF ~raised
    THEN [s EXCEPT !.pc = "store_lock", !.pendOk = TRUE]
    ELSE IF s.retry_iter > retries
         THEN [s EXCEPT !.pc = "store_lock", !.pendOk = FALSE,
                        !.pend = Produced(s.pend.id, TRUE)]
         ELSE [s EXCEPT !.pc = "exec", !.retry_iter = @ + 1]

\* The retry loop of __execute_task(): a result ends it, an exception ends it
\* once retry_iter >= retries, otherwise retry_iter += 1 and the loop goes on.
ExecuteTaskStep(s, raised) ==
    IF ~raised
    THEN [s EXCEPT !.pc = "store_lock", !.pendOk = TRUE]
    ELSE IF s.retry_iter >= retries
         THEN [s EXCEPT !.pc = "store_lock", !.pendOk = FALSE,
                        !.pend = Produced(s.pend.id, TRUE)]
         ELSE [s EXCEPT !.pc = "exec", !.retry_iter = @ + 1]

\* The user function returns or raises.
GcFnDone(t) ==
    /\ th[t].pc = "fn"
    /\ CanRun(t)
    /\ \E raised \in BOOLEAN :
          /\ th' = [th EXCEPT ![t] = ExecuteTaskStep(@, raised)]
          /\ fnSeen' = IF raised THEN [fnSeen EXCEPT !.raised = TRUE]
                                 ELSE [fnSeen EXCEPT !.returned = TRUE]
    /\ running' = Keep(t, th'[t].pc = "store_lock" /\ Rec(t).lock # None)
    /\ UNCHANGED <<cfgVars, exit_stacks, wrapVars, cacheLock, now, recs, evSet, nevents, calls, genStored,
                   started, destroys, lastVerdict>>

\* `with self.__lock:` of __store_cache()
GcStoreLock(t) ==
    /\ th[t].pc = "store_lock"
    /\ CanRun(t)
    /\ LockFree(Rec(t), t)
    /\ recs' = [recs EXCEPT ![th[t].rec].lock = t]
    /\ th' = [th EXCEPT ![t].pc = "store"]
    /\ running' = Keep(t, FALSE)
    /\ UNCHANGED <<cfgVars, exit_stacks, wrapVars, cacheLock, now, evSet, nevents, calls, started, destroys,
                   genStored, fnSeen, lastVerdict>>

\* `self.destroy(); event = inflight; last_fetched = now; inflight = None`
StoreBegin(r, t) == [Destroy(r) EXCEPT !.last_fetched = t, !.inflight = None]

\* The first statements of __store_cache()'s locked block.  The cooperative
\* record then enters a successful value into its exit stack, if so
\* configured: `await exit_stack.enter_async_context(value)` may suspend in
\* the value's __aenter__, with the lock held.
GcStore(t) ==
    /\ th[t].pc = "store"
    /\ CanRun(t)
    /\ recs' = [recs EXCEPT ![th[t].rec] = StoreBegin(@, now)]
    /\ exit_stacks' = ExitStacksClosed(exit_stacks, recs, {th[t].rec})
    /\ th' = [th EXCEPT ![t].pc = "store2", ![t].sev = Rec(t).inflight]
    /\ \E suspends \in {FALSE, wrap_async_exit_stack /\ th[t].pendOk} :
          running' = Keep(t, suspends)
    /\ UNCHANGED <<cfgVars, wrapVars, cacheLock, now, evSet, nevents, calls, started, destroys,
                   genStored, fnSeen, lastVerdict>>

\* (mutation of StoreEnd: the record's lock is not released)
StoreEndKeepsLock(r, value, ok) ==
    [r EXCEPT !.value = value, !.is_error = ~ok]

\* (mutation of StoreEnd: the error flag is not recorded)
StoreEndForgetsError(r, value, ok) ==
    [r EXCEPT !.value = value, !.is_error = FALSE, !.lock = Released(r)]

\* `value = value; is_error = not is_successful; event.set()`, the lock is
\* released, then `if not is_successful and fail: raise value`.
StoreEnd(r, value, ok) ==
    [r EXCEPT !.value = value, !.is_error = ~ok, !.lock = Released(r)]

\* (mutation of RaisesToProducer: the producer never raises)
RaisesToNobody(ok) == FALSE

RaisesToProducer(ok) == ~ok /\ fail

GcStore2(t) ==
    /\ th[t].pc = "store2"
    /\ CanRun(t)
    /\ th[t].sev # None
    /\ recs' = [recs EXCEPT ![th[t].rec] =
                  StoreEnd(SafeWrapExitStack(@, th[t].pend, th[t].pendOk),
                           th[t].pend, th[t].pendOk)]
    /\ exit_stacks' = IF wrap_async_exit_stack /\ th[t].pendOk
                      THEN [exit_stacks EXCEPT ![th[t].pend.id] = "entered"]
                      ELSE exit_stacks
    /\ evSet' = evSet \cup {th[t].sev}
    /\ genStored' = [genStored EXCEPT ![th[t].sev] = th[t].pend]
    /\ IF RaisesToProducer(th[t].pendOk)
       THEN Finish(t, "raised", th[t].pend)
       ELSE /\ th' = [th EXCEPT ![t].pc = "wait"]
            /\ running' = Keep(t, FALSE)
            /\ UNCHANGED cacheLock
    /\ UNCHANGED <<cfgVars, wrapVars, now, nevents, calls, fnSeen, started, destroys,
                   lastVerdict>>

\* `event.wait()`
GcWait(t) ==
    /\ th[t].pc = "wait"
    /\ CanRun(t)
    /\ th[t].ev \in evSet
    /\ th' = [th EXCEPT ![t].pc = "ret"]
    /\ running' = Keep(t, FALSE)
    /\ UNCHANGED <<cfgVars, exit_stacks, wrapVars, cacheLock, now, recVars, started, destroys, lastVerdict>>

\* `return self.__cached_value.value`
ReturnedValue(r) == r.value

GcRet(t) ==
    /\ th[t].pc = "ret"
    /\ CanRun(t)
    /\ Finish(t, "returned", ReturnedValue(Rec(t)))
    /\ UNCHANGED <<cfgVars, exit_stacks, wrapVars, now, recVars, started, destroys, lastVerdict>>

GetCachedStep(t) ==
    \/ GcAcquire(t)
    \/ GcCheck(t)
    \/ GcExpiry(t)
    \/ GcStoreCheck(t)
    \/ GcInvoke(t)
    \/ GcFnDone(t)
    \/ GcStoreLock(t)
    \/ GcStore(t)
    \/ GcStore2(t)
    \/ GcWait(t)
    \/ GcRet(t)

\* ------------------------------------------------- one record, driven directly
Policies == {NonExpiring, Refreshing(RefreshInterval)}

\* A caller (thread or task) calls record.get_cached().
Call(t) ==
    /\ th[t].pc \in {"idle", "done"}
    /\ started < MaxCalls
    /\ variant = "sync" \/ running = None
    /\ started' = started + 1
    /\ th' = [th EXCEPT ![t] = [IdleThread EXCEPT !.pc = "acquire"]]
    /\ running' = Keep(t, recs[1].lock # None)
    /\ UNCHANGED <<cfgVars, exit_stacks, wrapVars, cacheLock, now, recVars, destroys, lastVerdict>>

\* record.destroy() called from outside get_cached(), as clear and sweep do.
\* (The history variable fetchingAtClear is left to the specification.)
ExtDestroy ==
    /\ destroys < MaxDestroys
    /\ variant = "sync" \/ running = None
    /\ destroys' = destroys + 1
    /\ recs' = [recs EXCEPT ![1] = Destroy(@)]
    /\ exit_stacks' = ExitStacksClosed(exit_stacks, recs, {1})
    /\ UNCHANGED <<cfgVars, cacheLock, now, evSet, nevents, calls, th, running,
                   started, genStored, fnSeen, lastVerdict, repo, opLog, hits,
                   misses, nrecs, expiry_period, last_expiration_check, clears,
                   keysSeen, overlapped, sweepWake, destroy_event, destroy_pc>>

\* record.is_expired() called from outside get_cached(), as a sweep does.
ExtIsExpired ==
    /\ variant = "sync" \/ running = None
    /\ lastVerdict' = IF IsExpired(recs[1], now) THEN "expired" ELSE "fresh"
    /\ lastVerdict' # lastVerdict
    /\ UNCHANGED <<cfgVars, exit_stacks, wrapVars, cacheLock, now, recVars, th, running, started, destroys>>

\* Time passes.
Tick ==
    /\ now < MaxTime
    /\ now' = now + 1
    /\ UNCHANGED <<cfgVars, exit_stacks, wrapVars, cacheLock, recVars, th, running, started, destroys, lastVerdict>>

InitRecordWrapping(wrap) ==
    /\ variant \in {"sync", "async"}
    /\ now = 0
    /\ fail \in BOOLEAN
    /\ retries \in 0..MaxRetries
    /\ expiration \in Policies
    /\ negative_expiration \in Policies
    /\ recs = [r \in Records |-> EmptyRecord]
    /\ wrap_async_exit_stack = wrap
    /\ exit_stacks = [h \in ExitStacks |-> "unused"]
    /\ evSet = {}
    /\ nevents = 0
    /\ calls = 0
    /\ th = [t \in Callers |-> IdleThread]
    /\ running = None
    /\ started = 0
    /\ destroys = 0
    /\ genStored = [e \in Events |-> NoneValue]
    /\ fnSeen = [raised |-> FALSE, returned |-> FALSE]
    /\ lastVerdict = "none"
    /\ enabled = TRUE
    /\ maxsize = None
    /\ repo = RepoInit(maxsize)
    /\ opLog = <<>>
    /\ cacheLock = None
    /\ hits = 0
    /\ misses = 0
    /\ nrecs = 0
    /\ expiry_period = None
    /\ last_expiration_check = None
    /\ clears = 0
    /\ keysSeen = {}
    /\ overlapped = FALSE
    /\ sweepWake = None
    /\ fetchingAtClear = {}
    /\ destroy_event = FALSE
    /\ destroy_pc = "none"

\* Resource wrapping is off unless a specification turns it on.
InitRecord == InitRecordWrapping(FALSE)

NextRecord ==
    \/ \E t \in Callers : Call(t)
    \/ \E t \in Callers : GetCachedStep(t)
    \/ ExtDestroy /\ UNCHANGED fetchingAtClear
    \/ ExtIsExpired
    \/ Tick

SpecRecord == InitRecord /\ [][NextRecord]_vars

\* ------------------------------------------ destroy() while a refresh runs
\* The records that hold a value and whose fetch, a refresh, is in flight.
RecordsBeingRefreshed ==
    {r \in Records : recs[r].inflight # None /\ recs[r].last_fetched # None}

\* record.destroy() from outside, with the refreshes then in flight
\* remembered.
DestroyAmongCalls ==
    /\ ExtDestroy
    /\ fetchingAtClear' = RecordsBeingRefreshed

\* One record without retries, destroyed and asked while calls are in
\* progress.
InitInterleaved ==
    /\ InitRecord
    /\ retries = 0

NextInterleaved ==
    \/ \E t \in Callers : Call(t)
    \/ \E t \in Callers : GetCachedStep(t)
    \/ DestroyAmongCalls
    \/ ExtIsExpired
    \/ Tick

SpecInterleaved == InitInterleaved /\ [][NextInterleaved]_vars

\* The same record with get_cached() and destroy() calls only, cached errors
\* never expiring.
InitCallsAndDestroy ==
    /\ InitInterleaved
    /\ negative_expiration = NonExpiring

NextCallsAndDestroy ==
    \/ \E t \in Callers : Call(t)
    \/ \E t \in Callers : GetCachedStep(t)
    \/ DestroyAmongCalls
    \/ Tick

SpecCallsAndDestroy == InitCallsAndDestroy /\ [][NextCallsAndDestroy]_vars

\* Every thread or task that can take a step of get_cached() gets to take
\* it, and the user function ends.
SpecCallsAndDestroyFair ==
    SpecCallsAndDestroy /\ \A t \in Callers : WF_vars(GetCachedStep(t))

\* ----------------------------- one cooperative record that wraps its values
\* AsyncCachedRecord with wrap_async_exit_stack=True, its get_cached() and
\* destroy() called by tasks at any time.
InitExitStacks ==
    /\ InitRecordWrapping(TRUE)
    /\ variant = "async"
    /\ retries = 0

NextExitStacks ==
    \/ \E t \in Callers : Call(t)
    \/ \E t \in Callers : GetCachedStep(t)
    \/ ExtDestroy /\ UNCHANGED fetchingAtClear
    \/ Tick

SpecExitStacks == InitExitStacks /\ [][NextExitStacks]_vars

\* ------------------------------------------- a consumer abandons its wait
\* (mutation of Abandon: the abandoned wait takes the fetch in flight with it)
AbandonResetsFetch(t) ==
    /\ variant = "async"
    /\ th[t].pc = "wait"
    /\ th[t].role = "consumer"
    /\ running = None
    /\ Finish(t, "CancelledError", NoneValue)
    /\ recs' = [recs EXCEPT ![th[t].rec].inflight = None]
    /\ UNCHANGED <<cfgVars, exit_stacks, wrapVars, now, evSet, nevents, calls, genStored,
                   fnSeen, started, destroys, lastVerdict>>

\* A task suspended at `await event.wait()` of get_cached() is cancelled (by
\* its caller, or by the caller's wait_for() timeout): CancelledError is
\* raised at the await, after which get_cached() has no statement left but
\* the return; the lock was released before the wait.
Abandon(t) ==
    /\ variant = "async"
    /\ th[t].pc = "wait"
    /\ th[t].role = "consumer"
    /\ running = None
    /\ Finish(t, "CancelledError", NoneValue)
    /\ UNCHANGED <<cfgVars, exit_stacks, wrapVars, now, recVars, started, destroys,
                   lastVerdict>>

\* One cooperative record that never expires, its consumers free to abandon.
InitAbandon ==
    /\ InitRecord
    /\ variant = "async"
    /\ expiration = NonExpiring
    /\ negative_expiration = NonExpiring

NextAbandon ==
    \/ \E t \in Callers : Call(t)
    \/ \E t \in Callers : GetCachedStep(t)
    \/ \E t \in Callers : Abandon(t)

SpecAbandon == InitAbandon /\ [][NextAbandon]_vars

\* The event loop runs every task that is ready, and the user function ends.
SpecAbandonFair == SpecAbandon /\ \A t \in Callers : WF_vars(GetCachedStep(t))

\* ------------------------------------------- a producer's fetch is cancelled
\* The task that runs __store_cache() is cancelled (by its caller, or by the
\* caller's wait_for() timeout) while it is suspended at
\* `await self.__get_function()`: CancelledError is not an Exception, so the
\* `except Exception` of __execute_task() lets it through, and it leaves
\* __store_cache(), which has no handler, and get_cached() at once.
CancelFetch(t) ==
    /\ variant = "async"
    /\ th[t].pc = "fn"
    /\ th[t].role = "producer"
    /\ running = None
    /\ Finish(t, "CancelledError", NoneValue)
    /\ UNCHANGED <<cfgVars, exit_stacks, wrapVars, now, recVars, started, destroys,
                   lastVerdict>>

\* One cooperative record that never expires, its producers open to
\* cancellation.
InitCancel ==
    /\ InitRecord
    /\ variant = "async"
    /\ expiration = NonExpiring
    /\ negative_expiration = NonExpiring

NextCancel ==
    \/ \E t \in Callers : Call(t)
    \/ \E t \in Callers : GetCachedStep(t)
    \/ \E t \in Callers : CancelFetch(t)

SpecCancel == InitCancel /\ [][NextCancel]_vars

\* ------------------------------------------- one repository, driven directly
Results == 1..NumResults

\* The operations made so far; a hung operation never returns.
Logged(op, key, value, out) ==
    Append(opLog, [op |-> op, key |-> key, value |-> value, out |-> out])
CanOperate ==
    /\ Len(opLog) < MaxOps
    /\ \A i \in 1..Len(opLog) : opLog[i].out # "hang"

NonRepoVars ==
    <<cfgVars, exit_stacks, now, recVars, th, running, started, destroys, lastVerdict,
      cacheLock, hits, misses, nrecs, expiry_period, last_expiration_check,
      clears, keysSeen, overlapped, sweepWake, fetchingAtClear,
                   destroy_event, destroy_pc>>

\* repository.add(key, value)
AddOp(key, value) ==
    /\ CanOperate
    /\ repo' = RepoAdd(repo, key, value)
    /\ opLog' = Logged("add", key, value,
                       IF RepoAddRaises(repo, key) THEN "KeyError" ELSE "ok")
    /\ UNCHANGED NonRepoVars

\* repository.get(key)
GetOp(key) ==
    /\ CanOperate
    /\ repo' = RepoGet(repo, key)
    /\ opLog' = Logged("get", key, RepoGetNoAdjust(repo, key), "ok")
    /\ UNCHANGED NonRepoVars

\* repository.clear()
ClearOp ==
    /\ CanOperate
    /\ repo' = RepoClear(repo)
    /\ opLog' = Logged("clear", None, None, "ok")
    /\ UNCHANGED NonRepoVars

\* repository.filter(condition)
FilterOp(keep) ==
    /\ CanOperate
    /\ repo' = RepoFilter(repo, keep, {}).repo
    /\ opLog' = Logged("filter", None, None, RepoFilter(repo, keep, {}).err)
    /\ UNCHANGED NonRepoVars

InitRepo ==
    /\ variant = "sync"
    /\ now = 0
    /\ fail = TRUE
    /\ retries = 0
    /\ expiration = NonExpiring
    /\ negative_expiration = NonExpiring
    /\ recs = [r \in Records |-> EmptyRecord]
    /\ wrap_async_exit_stack = FALSE
    /\ exit_stacks = [h \in ExitStacks |-> "unused"]
    /\ evSet = {}
    /\ nevents = 0
    /\ calls = 0
    /\ th = [t \in Callers |-> IdleThread]
    /\ running = None
    /\ started = 0
    /\ destroys = 0
    /\ genStored = [e \in Events |-> NoneValue]
    /\ fnSeen = [raised |-> FALSE, returned |-> FALSE]
    /\ lastVerdict = "none"
    /\ enabled = TRUE
    /\ maxsize \in 0..MaxSize
    /\ repo = RepoInit(maxsize)
    /\ opLog = <<>>
    /\ cacheLock = None
    /\ hits = 0
    /\ misses = 0
    /\ nrecs = 0
    /\ expiry_period = None
    /\ last_expiration_check = None
    /\ clears = 0
    /\ keysSeen = {}
    /\ overlapped = FALSE
    /\ sweepWake = None
    /\ fetchingAtClear = {}
    /\ destroy_event = FALSE
    /\ destroy_pc = "none"

NextRepo ==
    \/ \E key \in RepoKeys, value \in Results : AddOp(key, value)
    \/ \E key \in RepoKeys : GetOp(key)
    \/ ClearOp
    \/ \E keep \in SUBSET Results : FilterOp(keep)

SpecRepo == InitRepo /\ [][NextRepo]_vars

\* -------------------------------------------------- the alru_cache wrappers
\* `fail=not negative_cache` of the record the wrapper creates.
negative_cache == ~fail

\* The condition handed to filter(): the blocking wrapper keeps a record that
\* is not expired, the cooperative wrapper's __expiry_record_lambda keeps a
\* record that is.
SweepKeeps(rp, rs) ==
    {r \in RepoValues(rp) :
        IF variant = "sync" THEN ~IsExpired(rs[r], now) ELSE IsExpired(rs[r], now)}

\* The stored records whose is_expired() raises.
SweepRaises(rp, rs) ==
    {r \in RepoValues(rp) : IsExpiredRaises(rs[r], now)}

\* __remove_expired(): filter the repository, then destroy the removed
\* records.  An exception out of filter() leaves the loop of destroys undone
\* (`err`: the exception, that of is_expired() when the condition raised).
RemoveExpiredFrom(rp, rs) ==
    LET f == RepoFilter(rp, SweepKeeps(rp, rs), SweepRaises(rp, rs)) IN
    [repo |-> f.repo,
     recs |-> IF f.err = "none"
              THEN [r \in Records |->
                      IF r \in f.removed THEN Destroy(rs[r]) ELSE rs[r]]
              ELSE rs,
     destroyed |-> IF f.err = "none" THEN f.removed ELSE {},
     err |-> IF f.err = "condition" THEN IsExpiredOutcome(rs[f.failed], now)
             ELSE f.err]

\* (mutation of SweepDue: the period must be exceeded, `>`, and the first
\* call does not sweep)
SweepDueLate ==
    /\ expiry_period # None
    /\ last_expiration_check # None
    /\ now - last_expiration_check > expiry_period

\* __schedule_remove_expired() of the blocking wrapper: is a sweep due now?
SweepDue ==
    /\ expiry_period # None
    /\ \/ last_expiration_check = None
       \/ now - last_expiration_check >= expiry_period

\* (mutation of IsCacheEnabled: maxsize 0 does not disable the cache)
IsCacheEnabledIgnoresMaxsize == enabled

\* __is_cache_enabled(), evaluated once when the wrapper is built.
IsCacheEnabled == IF maxsize = 0 THEN FALSE ELSE enabled

\* A caller calls the cached function with some arguments (a key).  Callers
\* and keys are interchangeable: the first call is caller 1's, and a key not
\* used before is the least such key.
WCall(t, key) ==
    /\ th[t].pc \in {"idle", "done"}
    /\ started < MaxCachedCalls
    /\ started = 0 => t = 1
    /\ key <= Cardinality(keysSeen) + 1
    /\ variant = "sync" \/ running = None
    /\ started' = started + 1
    /\ th' = [th EXCEPT ![t] = [IdleThread EXCEPT
                  !.pc = IF IsCacheEnabled THEN "lookup" ELSE "count",
                  !.path = IF IsCacheEnabled THEN "wrapper" ELSE "disabled",
                  !.key = key]]
    /\ keysSeen' = keysSeen \cup {key}
    /\ overlapped' =
          (overlapped \/ \E u \in Callers \ {t} : th[u].pc \notin {"idle", "done"})
    /\ running' = Keep(t, cacheLock # None)
    /\ UNCHANGED <<cfgVars, exit_stacks, now, recVars, destroys, lastVerdict, repo, opLog,
                   cacheLock, hits, misses, nrecs, expiry_period,
                   last_expiration_check, clears, sweepWake,
                   fetchingAtClear,
                   destroy_event, destroy_pc>>

\* `with lock:` the blocking wrapper runs a due sweep, then both look the key
\* up (cache.get, or cache.get_no_adjust when maxsize is None): a hit calls
\* get_cached() on the stored record with the lock held, a miss leaves the
\* lock and creates a record of its own.
WLookup(t) ==
    /\ th[t].pc = "lookup"
    /\ CanRun(t)
    /\ cacheLock = None
    /\ LET due == variant = "sync" /\ SweepDue
           sw == IF due THEN RemoveExpiredFrom(repo, recs)
                 ELSE [repo |-> repo, recs |-> recs, destroyed |-> {},
                       err |-> "none"]
           record == RepoGetNoAdjust(sw.repo, th[t].key)
       IN /\ last_expiration_check' = IF due THEN now ELSE last_expiration_check
          /\ recs' = sw.recs
          /\ exit_stacks' = ExitStacksClosed(exit_stacks, recs, sw.destroyed)
          /\ CASE sw.err \notin {"none", "hang"} ->
                    /\ repo' = sw.repo
                    /\ Finish(t, sw.err, NoneValue)
                    /\ UNCHANGED <<hits, misses, nrecs>>
               [] sw.err = "hang" ->
                    /\ repo' = sw.repo
                    /\ th' = [th EXCEPT ![t].pc = "hung"]
                    /\ cacheLock' = t
                    /\ running' = running
                    /\ UNCHANGED <<hits, misses, nrecs>>
               [] sw.err = "none" /\ record # None ->
                    /\ repo' = IF maxsize = None THEN sw.repo
                                ELSE RepoGet(sw.repo, th[t].key)
                    /\ hits' = hits + 1
                    /\ cacheLock' = t
                    /\ th' = [th EXCEPT ![t].pc = "acquire", ![t].path = "hit",
                                        ![t].rec = record]
                    /\ running' = Keep(t, sw.recs[record].lock # None)
                    /\ UNCHANGED <<misses, nrecs>>
               [] sw.err = "none" /\ record = None ->
                    /\ repo' = sw.repo
                    /\ misses' = misses + 1
                    /\ nrecs' = nrecs + 1
                    /\ th' = [th EXCEPT ![t].pc = "acquire", ![t].path = "miss",
                                        ![t].rec = nrecs + 1]
                    /\ running' = Keep(t, FALSE)
                    /\ UNCHANGED <<hits, cacheLock>>
    /\ UNCHANGED <<cfgVars, now, evSet, nevents, calls, genStored, fnSeen,
                   started, destroys, lastVerdict, opLog, expiry_period, clears,
                   keysSeen, overlapped, sweepWake,
                   fetchingAtClear,
                   destroy_event, destroy_pc>>

\* `with lock: cache.add(key, record)` (cache.add_no_adjust when maxsize is
\* None), then `return result`.
WAdd(t) ==
    /\ th[t].pc = "add"
    /\ CanRun(t)
    /\ cacheLock = None
    /\ repo' = IF maxsize = None
               THEN RepoAddNoAdjust(repo, th[t].key, th[t].rec)
               ELSE RepoAdd(repo, th[t].key, th[t].rec)
    /\ th' = [th EXCEPT ![t].pc = "done",
                        ![t].outcome =
                            IF maxsize # None /\ RepoAddRaises(repo, th[t].key)
                            THEN "KeyError" ELSE "returned"]
    /\ running' = None
    /\ UNCHANGED <<cfgVars, exit_stacks, now, recVars, started, destroys, lastVerdict, opLog,
                   cacheLock, hits, misses, nrecs, expiry_period,
                   last_expiration_check, clears, keysSeen, overlapped,
                   sweepWake,
                   fetchingAtClear,
                   destroy_event, destroy_pc>>

\* The wrapper of a disabled cache: `misses += 1` reads the counter and writes
\* it back, without the lock; then the user function is called and its result
\* returned, or its exception raised.
DisabledStep(t) ==
    /\ CanRun(t)
    /\ \/ /\ th[t].pc = "count"
          /\ th' = [th EXCEPT ![t].pc = "count2", ![t].seen = misses]
          /\ running' = Keep(t, FALSE)
          /\ UNCHANGED <<misses, calls, fnSeen>>
       \/ /\ th[t].pc = "count2"
          /\ misses' = th[t].seen + 1
          /\ th' = [th EXCEPT ![t].pc = "call"]
          /\ running' = Keep(t, FALSE)
          /\ UNCHANGED <<calls, fnSeen>>
       \/ /\ th[t].pc = "call"
          /\ calls < MaxInvocations
          /\ calls' = calls + 1
          /\ th' = [th EXCEPT ![t].pc = "user_fn", ![t].ninv = @ + 1,
                              ![t].pend = Produced(calls + 1, FALSE)]
          /\ \E suspends \in BOOLEAN : running' = Keep(t, suspends)
          /\ UNCHANGED <<misses, fnSeen>>
       \/ /\ th[t].pc = "user_fn"
          /\ \E raised \in BOOLEAN :
                /\ th' = [th EXCEPT
                            ![t].pc = "done",
                            ![t].outcome = IF raised THEN "raised" ELSE "returned",
                            ![t].result = Produced(th[t].pend.id, raised)]
                /\ fnSeen' = IF raised THEN [fnSeen EXCEPT !.raised = TRUE]
                                       ELSE [fnSeen EXCEPT !.returned = TRUE]
          /\ running' = None
          /\ UNCHANGED <<misses, calls>>
    /\ UNCHANGED <<cfgVars, exit_stacks, now, recs, evSet, nevents, genStored, started,
                   destroys, lastVerdict, repo, opLog, cacheLock, hits, nrecs,
                   expiry_period, last_expiration_check, clears, keysSeen,
                   overlapped, sweepWake,
                   fetchingAtClear,
                   destroy_event, destroy_pc>>

\* The records whose __store_cache() is running: the user function was or is
\* about to be called and the result is not stored yet.
RecordsBeingFetched ==
    {r \in Records :
        \E t \in Callers :
            /\ th[t].rec = r
            /\ th[t].path \in {"miss", "hit"}
            /\ th[t].pc \in {"store_check", "exec", "fn", "store_lock", "store",
                              "store2"}}

\* cache_clear(): under the lock every stored record is destroyed, the
\* repository cleared and the counters reset.  (The history variable
\* fetchingAtClear and the position of a destroy() that called it are left to
\* the specification.)
CacheClear ==
    /\ clears < MaxClears
    /\ variant = "sync" \/ running = None
    /\ cacheLock = None
    /\ clears' = clears + 1
    /\ recs' = [r \in Records |->
                  IF r \in RepoValues(repo) THEN Destroy(recs[r]) ELSE recs[r]]
    /\ exit_stacks' = ExitStacksClosed(exit_stacks, recs, RepoValues(repo))
    /\ repo' = RepoClear(repo)
    /\ hits' = 0
    /\ misses' = 0
    /\ UNCHANGED <<cfgVars, now, evSet, nevents, calls, genStored, fnSeen, th,
                   running, started, destroys, lastVerdict, opLog, cacheLock,
                   nrecs, expiry_period, last_expiration_check, keysSeen,
                   overlapped, sweepWake, destroy_event>>

\* cache_clear() and remove_expired() are called from outside at any time.
\* remove_expired(): `with lock: __remove_expired()`.
RemoveExpired ==
    /\ clears < MaxClears
    /\ variant = "sync" \/ running = None
    /\ cacheLock = None
    /\ clears' = clears + 1
    /\ LET sw == RemoveExpiredFrom(repo, recs)
       IN /\ repo' = sw.repo
          /\ recs' = sw.recs
          /\ exit_stacks' = ExitStacksClosed(exit_stacks, recs, sw.destroyed)
          /\ cacheLock' = IF sw.err = "hang" THEN NoCaller ELSE None
          /\ running' = IF sw.err = "hang" /\ variant = "async"
                        THEN NoCaller ELSE running
    /\ last_expiration_check' = now
    /\ UNCHANGED <<cfgVars, now, evSet, nevents, calls, genStored, fnSeen, th,
                   started, destroys, lastVerdict, opLog, hits, misses, nrecs,
                   expiry_period, keysSeen, overlapped, sweepWake,
                   fetchingAtClear,
                   destroy_event, destroy_pc>>

\* The cooperative wrapper's background task: `await asleep(period)`, then
\* `async with lock: await __remove_expired()`, then the loop's condition
\* `while not destroy_event.is_set()`; an exception ends the task.
AsyncSweep ==
    /\ variant = "async"
    /\ sweepWake # None
    /\ now >= sweepWake
    /\ running = None
    /\ cacheLock = None
    /\ LET sw == RemoveExpiredFrom(repo, recs)
       IN /\ repo' = sw.repo
          /\ recs' = sw.recs
          /\ exit_stacks' = ExitStacksClosed(exit_stacks, recs, sw.destroyed)
          /\ sweepWake' = IF sw.err = "none" /\ ~destroy_event
                        THEN now + expiry_period ELSE None
          /\ cacheLock' = IF sw.err = "hang" THEN NoCaller ELSE None
          /\ running' = IF sw.err = "hang" THEN NoCaller ELSE None
    /\ last_expiration_check' = now
    /\ UNCHANGED <<cfgVars, now, evSet, nevents, calls, genStored, fnSeen, th,
                   started, destroys, lastVerdict, opLog, hits, misses, nrecs,
                   expiry_period, clears, keysSeen, overlapped,
                   fetchingAtClear,
                   destroy_event, destroy_pc>>

Init ==
    /\ variant \in {"sync", "async"}
    /\ now = 0
    /\ fail \in BOOLEAN
    /\ retries \in 0..MaxCachedRetries
    /\ expiration \in Policies
    /\ negative_expiration \in Policies
    /\ recs = [r \in Records |-> EmptyRecord]
    /\ wrap_async_exit_stack = FALSE
    /\ exit_stacks = [h \in ExitStacks |-> "unused"]
    /\ evSet = {}
    /\ nevents = 0
    /\ calls = 0
    /\ th = [t \in Callers |-> IdleThread]
    /\ running = None
    /\ started = 0
    /\ destroys = 0
    /\ genStored = [e \in Events |-> NoneValue]
    /\ fnSeen = [raised |-> FALSE, returned |-> FALSE]
    /\ lastVerdict = "none"
    /\ enabled = TRUE
    /\ maxsize \in 1..MaxCachedSize
    /\ repo = RepoInit(maxsize)
    /\ opLog = <<>>
    /\ cacheLock = None
    /\ hits = 0
    /\ misses = 0
    /\ nrecs = 0
    /\ expiry_period \in {None, SweepPeriod}
    /\ last_expiration_check = None
    /\ clears = 0
    /\ keysSeen = {}
    /\ overlapped = FALSE
    /\ sweepWake = IF variant = "async" /\ expiry_period # None
                   THEN expiry_period ELSE None
    /\ fetchingAtClear = {}
    /\ destroy_event = FALSE
    /\ destroy_pc = "none"

Next ==
    \/ \E t \in Callers, key \in Keys : WCall(t, key)
    \/ \E t \in Callers : WLookup(t)
    \/ \E t \in Callers : GetCachedStep(t)
    \/ \E t \in Callers : WAdd(t)
    \/ CacheClear /\ UNCHANGED <<fetchingAtClear, destroy_pc>>
    \/ RemoveExpired
    \/ AsyncSweep
    \/ Tick

Spec == Init /\ [][Next]_vars

\* ------------------------------------- alru_cache(enabled=..., maxsize=...)
\* The wrappers get the parameters of cache_params, built before the negative
\* maxsize is replaced by 0: the repository and __is_cache_enabled() see the
\* maxsize the caller passed.
NegativeMaxsize == 0 - 2
MaxsizeArgs == {None, NegativeMaxsize, 0, 1}

InitSized ==
    /\ variant \in {"sync", "async"}
    /\ now = 0
    /\ fail = TRUE
    /\ retries \in 0..MaxRetries
    /\ expiration = NonExpiring
    /\ negative_expiration = NonExpiring
    /\ enabled \in BOOLEAN
    /\ maxsize \in MaxsizeArgs
    /\ recs = [r \in Records |-> EmptyRecord]
    /\ wrap_async_exit_stack = FALSE
    /\ exit_stacks = [h \in ExitStacks |-> "unused"]
    /\ evSet = {}
    /\ nevents = 0
    /\ calls = 0
    /\ th = [t \in Callers |-> IdleThread]
    /\ running = None
    /\ started = 0
    /\ destroys = 0
    /\ genStored = [e \in Events |-> NoneValue]
    /\ fnSeen = [raised |-> FALSE, returned |-> FALSE]
    /\ lastVerdict = "none"
    /\ repo = RepoInit(maxsize)
    /\ opLog = <<>>
    /\ cacheLock = None
    /\ hits = 0
    /\ misses = 0
    /\ nrecs = 0
    /\ expiry_period = None
    /\ last_expiration_check = None
    /\ clears = 0
    /\ keysSeen = {}
    /\ overlapped = FALSE
    /\ sweepWake = None
    /\ fetchingAtClear = {}
    /\ destroy_event = FALSE
    /\ destroy_pc = "none"

NextSized ==
    \/ \E t \in Callers, key \in Keys : WCall(t, key)
    \/ \E t \in Callers : DisabledStep(t)
    \/ \E t \in Callers : WLookup(t)
    \/ \E t \in Callers : GetCachedStep(t)
    \/ \E t \in Callers : WAdd(t)

SpecSized == InitSized /\ [][NextSized]_vars

\* ------------------------------------------ destroy() of a cooperative cache
\* destroy(): `destroy_event.set()`, then `await expiry_cleanup_task`.
DestroyBegin ==
    /\ variant = "async"
    /\ destroy_pc = "none"
    /\ running = None
    /\ destroy_event' = TRUE
    /\ destroy_pc' = "join"
    /\ UNCHANGED <<cfgVars, exit_stacks, now, recVars, th, running, started, destroys,
                   lastVerdict, repo, opLog, cacheLock, hits, misses, nrecs,
                   expiry_period, last_expiration_check, clears, keysSeen,
                   overlapped, sweepWake, fetchingAtClear>>

\* The sweep task has ended: `await cache_clear()`, and destroy() returns.
\* (The await would raise what a failed task raised; the sweeps of
\* SpecDestroy do not raise.)
DestroyEnd ==
    /\ destroy_pc = "join"
    /\ sweepWake = None
    /\ CacheClear
    /\ destroy_pc' = "returned"
    /\ UNCHANGED fetchingAtClear

\* A cooperative cache with or without a sweep task, destroyed at any time.
InitDestroy ==
    /\ Init
    /\ variant = "async"
    /\ negative_expiration = NonExpiring

NextDestroy ==
    \/ \E t \in Callers, key \in Keys : WCall(t, key)
    \/ \E t \in Callers : WLookup(t)
    \/ \E t \in Callers : GetCachedStep(t)
    \/ \E t \in Callers : WAdd(t)
    \/ AsyncSweep
    \/ Tick
    \/ DestroyBegin
    \/ DestroyEnd

SpecDestroy == InitDestroy /\ [][NextDestroy]_vars

\* ------------------------------------------------ cache_clear() among calls
\* Caches without expiration and without sweeps, uncapped and of one entry,
\* cleared while calls are in progress.
ClearedMaxsizes == {None, 1}

\* cache_clear(), with the records then being fetched remembered.
CacheClearAmongCalls ==
    /\ CacheClear
    /\ fetchingAtClear' = RecordsBeingFetched
    /\ UNCHANGED destroy_pc

InitClear ==
    /\ variant \in {"sync", "async"}
    /\ now = 0
    /\ fail \in BOOLEAN
    /\ retries = 0
    /\ expiration = NonExpiring
    /\ negative_expiration = NonExpiring
    /\ enabled = TRUE
    /\ maxsize \in ClearedMaxsizes
    /\ recs = [r \in Records |-> EmptyRecord]
    /\ wrap_async_exit_stack = FALSE
    /\ exit_stacks = [h \in ExitStacks |-> "unused"]
    /\ evSet = {}
    /\ nevents = 0
    /\ calls = 0
    /\ th = [t \in Callers |-> IdleThread]
    /\ running = None
    /\ started = 0
    /\ destroys = 0
    /\ genStored = [e \in Events |-> NoneValue]
    /\ fnSeen = [raised |-> FALSE, returned |-> FALSE]
    /\ lastVerdict = "none"
    /\ repo = RepoInit(maxsize)
    /\ opLog = <<>>
    /\ cacheLock = None
    /\ hits = 0
    /\ misses = 0
    /\ nrecs = 0
    /\ expiry_period = None
    /\ last_expiration_check = None
    /\ clears = 0
    /\ keysSeen = {}
    /\ overlapped = FALSE
    /\ sweepWake = None
    /\ fetchingAtClear = {}
    /\ destroy_event = FALSE
    /\ destroy_pc = "none"

NextClear ==
    \/ \E t \in Callers, key \in Keys : WCall(t, key)
    \/ \E t \in Callers : WLookup(t)
    \/ \E t \in Callers : GetCachedStep(t)
    \/ \E t \in Callers : WAdd(t)
    \/ CacheClearAmongCalls

SpecClear == InitClear /\ [][NextClear]_vars

\* ------------------------------------------ sweeps over a failing policy
\* alru_cache(expiration=lambda value: [], negative_cache=True,
\* expired_items_auto_removal_period=SweepPeriod): is_expired() of a record
\* that holds a result raises InvalidExpirationType, that of a record that
\* holds an exception asks the negative policy.
FailingExpiration == Function(ListValue)
SweptMaxsizes == {None, MaxCachedSize}

InitSweep ==
    /\ variant \in {"sync", "async"}
    /\ now = 0
    /\ fail = FALSE
    /\ retries = 0
    /\ expiration = GetCacheExpiration(FailingExpiration, variant = "async").policy
    /\ negative_expiration \in Policies
    /\ enabled = TRUE
    /\ maxsize \in SweptMaxsizes
    /\ recs = [r \in Records |-> EmptyRecord]
    /\ wrap_async_exit_stack = FALSE
    /\ exit_stacks = [h \in ExitStacks |-> "unused"]
    /\ evSet = {}
    /\ nevents = 0
    /\ calls = 0
    /\ th = [t \in Callers |-> IdleThread]
    /\ running = None
    /\ started = 0
    /\ destroys = 0
    /\ genStored = [e \in Events |-> NoneValue]
    /\ fnSeen = [raised |-> FALSE, returned |-> FALSE]
    /\ lastVerdict = "none"
    /\ repo = RepoInit(maxsize)
    /\ opLog = <<>>
    /\ cacheLock = None
    /\ hits = 0
    /\ misses = 0
    /\ nrecs = 0
    /\ expiry_period = SweepPeriod
    /\ last_expiration_check = None
    /\ clears = 0
    /\ keysSeen = {}
    /\ overlapped = FALSE
    /\ sweepWake = IF variant = "async" THEN expiry_period ELSE None
    /\ fetchingAtClear = {}
    /\ destroy_event = FALSE
    /\ destroy_pc = "none"

NextSweep ==
    \/ \E t \in Callers, key \in Keys : WCall(t, key)
    \/ \E t \in Callers : WLookup(t)
    \/ \E t \in Callers : GetCachedStep(t)
    \/ \E t \in Callers : WAdd(t)
    \/ RemoveExpired
    \/ AsyncSweep
    \/ Tick

SpecSweep == InitSweep /\ [][NextSweep]_vars

\* ------------------------------------ one record and its expiration policies
MaxStamp == 2
MaxClock == 3
MaxInterval == 2
MaxFetches == 2

\* What alru_cache(expiration=...) is given, and what predicates and cached
\* values hold as expiry values.
ExpiryLeaves ==
    {NoExpiry, BoolValue(FALSE), Timedelta(1), Datetime(1),
     CoroutineFunction(Timedelta(1)), Function(Timedelta(1))}
ExpirationArgs ==
    {NoExpiry, BoolValue(TRUE), BoolValue(FALSE),
     PathString(<<"data", "expiration">>),
     Function(CoroutineFunction(Timedelta(1))), Function(Timedelta(1)),
     CoroutineFunction(Timedelta(1))}
       \cup {Timedelta(n) : n \in 1..MaxInterval}
       \cup {Datetime(n) : n \in 1..MaxInterval}
NegativeExpirationArgs == {NoExpiry, Timedelta(1), CoroutineFunction(BoolValue(TRUE))}

\* What the user function returns: None, or a dict that has the path, lacks
\* its last key, or has something that is no dict on the way.
CachedObjects ==
    {NoExpiry}
      \cup {Dict([k \in {"data"} |-> Dict([j \in {"expiration"} |-> leaf])]) :
               leaf \in ExpiryLeaves}
      \cup {Dict([k \in {"data"} |-> Dict([j \in {"random"} |-> Timedelta(1)])]),
            Dict([k \in {"data"} |-> Timedelta(1)])}
RaisedException == [type |-> "exception", arg |-> 0]

\* The last call made: its outcome and the time and cached value it was about.
NoVerdict ==
    [call |-> "none", outcome |-> "none", at |-> 0, last_fetched |-> None,
     value |-> NoExpiry]

\* __validate_expirations() of the blocking record; the cooperative record
\* takes any policy.
ValidateExpirationsRaises ==
    /\ variant = "sync"
    /\ \/ IsAsyncCacheExpiration(expiration)
       \/ IsAsyncCacheExpiration(negative_expiration)

\* SyncCachedRecord(...) / AsyncCachedRecord(...)
Construct ==
    /\ nrecs = 0
    /\ lastVerdict.call # "__init__"
    /\ IF ValidateExpirationsRaises
       THEN /\ lastVerdict' = [NoVerdict EXCEPT !.call = "__init__",
                                               !.outcome = "InvalidCacheConfig"]
            /\ UNCHANGED nrecs
       ELSE /\ nrecs' = 1
            /\ lastVerdict' = [NoVerdict EXCEPT !.call = "__init__",
                                               !.outcome = "constructed"]
    /\ UNCHANGED <<cfgVars, exit_stacks, now, recVars, th, running, started, destroys, repo,
                   opLog, cacheLock, hits, misses, expiry_period,
                   last_expiration_check, clears, keysSeen, overlapped,
                   sweepWake,
                   fetchingAtClear,
                   destroy_event, destroy_pc>>

\* policy.is_value_expired(CachedValue(last_fetched=..., value=...)), called
\* on the success policy itself before a record is made with it.
IsValueExpiredCall ==
    /\ nrecs = 0
    /\ lastVerdict.call # "__init__"
    /\ ~(variant = "sync" /\ IsAsyncCacheExpiration(expiration))
    /\ \E last_fetched \in {None} \cup 0..MaxStamp, value \in CachedObjects :
          LET cv == [EmptyRecord EXCEPT !.last_fetched = last_fetched,
                                        !.value = value]
          IN lastVerdict' =
                [call |-> "is_value_expired",
                 outcome |-> IsValueExpiredOutcome(expiration, cv, now),
                 at |-> now, last_fetched |-> last_fetched, value |-> value]
    /\ UNCHANGED <<cfgVars, exit_stacks, now, recVars, th, running, started, destroys, repo,
                   opLog, cacheLock, hits, misses, nrecs, expiry_period,
                   last_expiration_check, clears, keysSeen, overlapped,
                   sweepWake,
                   fetchingAtClear,
                   destroy_event, destroy_pc>>

\* record.is_expired() called on the record, as a sweep does.
IsExpiredCall ==
    /\ nrecs = 1
    /\ lastVerdict' = [call |-> "is_expired",
                       outcome |-> IsExpiredOutcome(recs[1], now),
                       at |-> now, last_fetched |-> recs[1].last_fetched,
                       value |-> recs[1].value]
    /\ UNCHANGED <<cfgVars, exit_stacks, now, recVars, th, running, started, destroys, repo,
                   opLog, cacheLock, hits, misses, nrecs, expiry_period,
                   last_expiration_check, clears, keysSeen, overlapped,
                   sweepWake,
                   fetchingAtClear,
                   destroy_event, destroy_pc>>

\* record.get_cached() by the one caller there is, from acquire to return: a
\* fetched record asks is_expired() and returns the cached value if it says
\* False; an exception out of is_expired() leaves get_cached() with the lock
\* held.  Otherwise the function is called (no retries) and its result or
\* exception stored; the exception is raised if `fail` is set.
GetCachedAlone(v, r, t, value, raised) ==
    LET verdict == IsExpiredOutcome(r, t)
        fetched == r.last_fetched # None
    IN IF ~CanAcquire(v, r, 1)
       THEN [rec |-> r, outcome |-> "blocked"]
       ELSE IF fetched /\ verdict = "fresh"
       THEN [rec |-> r, outcome |-> "cached"]
       ELSE IF fetched /\ verdict \notin {"expired", "coroutine"}
       THEN [rec |-> [r EXCEPT !.lock = 1, !.leaked = TRUE],
             outcome |-> verdict]
       ELSE [rec |-> [r EXCEPT !.last_fetched = t, !.value = value,
                               !.is_error = raised],
             outcome |-> IF raised /\ fail THEN "raised" ELSE "fetched"]

\* get_cached() has called the function.
Fetched(outcome) == outcome \in {"raised", "fetched"}

GetCachedCall ==
    /\ nrecs = 1
    /\ LockFree(recs[1], 1)
    /\ \E value \in CachedObjects \cup {RaisedException} :
          LET raised == value = RaisedException
              g == GetCachedAlone(variant, recs[1], now, value, raised)
          IN /\ Fetched(g.outcome) => calls < MaxFetches
             /\ recs' = [recs EXCEPT ![1] = g.rec]
             /\ calls' = IF Fetched(g.outcome) THEN calls + 1 ELSE calls
             /\ fnSeen' = IF ~Fetched(g.outcome) THEN fnSeen
                          ELSE IF raised
                          THEN [fnSeen EXCEPT !.raised = TRUE]
                          ELSE [fnSeen EXCEPT !.returned = TRUE]
             /\ lastVerdict' =
                   [call |-> "get_cached", outcome |-> g.outcome, at |-> now,
                    last_fetched |-> g.rec.last_fetched,
                    value |-> g.rec.value]
    /\ UNCHANGED <<cfgVars, exit_stacks, now, evSet, nevents, genStored, th, running,
                   started, destroys, repo, opLog, cacheLock, hits, misses,
                   nrecs, expiry_period, last_expiration_check, clears,
                   keysSeen, overlapped, sweepWake,
                   fetchingAtClear,
                   destroy_event, destroy_pc>>

\* Time passes.
Elapse ==
    /\ now < MaxClock
    /\ now' = now + 1
    /\ UNCHANGED <<cfgVars, exit_stacks, recVars, th, running, started, destroys,
                   lastVerdict, repo, opLog, cacheLock, hits, misses, nrecs,
                   expiry_period, last_expiration_check, clears, keysSeen,
                   overlapped, sweepWake,
                   fetchingAtClear,
                   destroy_event, destroy_pc>>

InitExpiration ==
    /\ variant \in {"sync", "async"}
    /\ now = 0
    /\ fail \in BOOLEAN
    /\ retries = 0
    /\ expiration \in {GetCacheExpiration(value, variant = "async").policy :
                          value \in ExpirationArgs}
    /\ negative_expiration \in
          {GetCacheExpiration(value, variant = "async").policy :
              value \in NegativeExpirationArgs}
    /\ enabled = TRUE
    /\ maxsize = None
    /\ recs = [r \in Records |-> EmptyRecord]
    /\ wrap_async_exit_stack = FALSE
    /\ exit_stacks = [h \in ExitStacks |-> "unused"]
    /\ evSet = {}
    /\ nevents = 0
    /\ calls = 0
    /\ th = [t \in Callers |-> IdleThread]
    /\ running = None
    /\ started = 0
    /\ destroys = 0
    /\ genStored = [e \in Events |-> NoneValue]
    /\ fnSeen = [raised |-> FALSE, returned |-> FALSE]
    /\ lastVerdict = NoVerdict
    /\ repo = RepoInit(maxsize)
    /\ opLog = <<>>
    /\ cacheLock = None
    /\ hits = 0
    /\ misses = 0
    /\ nrecs = 0
    /\ expiry_period = None
    /\ last_expiration_check = None
    /\ clears = 0
    /\ keysSeen = {}
    /\ overlapped = FALSE
    /\ sweepWake = None
    /\ fetchingAtClear = {}
    /\ destroy_event = FALSE
    /\ destroy_pc = "none"

NextExpiration ==
    \/ Construct
    \/ IsValueExpiredCall
    \/ IsExpiredCall
    \/ GetCachedCall
    \/ Elapse

SpecExpiration == InitExpiration /\ [][NextExpiration]_vars

\* --------------------------- the two records driven by one sequence of calls
\* Record 1 is a SyncCachedRecord and record 2 an AsyncCachedRecord (resource
\* wrapping off), made with the same policies and function.  One caller
\* makes each call on both, with the same clock and the same function
\* outcome; lastVerdict holds how the call ended on each.
TwinPolicies(args) ==
    {p \in {GetCacheExpiration(value, FALSE).policy : value \in args} :
        ~IsAsyncCacheExpiration(p)}

TwinGetCached ==
    /\ lastVerdict.async # "blocked"
    /\ \E value \in CachedObjects \cup {RaisedException} :
          LET raised == value = RaisedException
              s == GetCachedAlone("sync", recs[1], now, value, raised)
              a == GetCachedAlone("async", recs[2], now, value, raised)
              fetches == Fetched(s.outcome) \/ Fetched(a.outcome)
          IN /\ fetches => calls < MaxFetches
             /\ calls' = IF fetches THEN calls + 1 ELSE calls
             /\ recs' = [recs EXCEPT ![1] = s.rec, ![2] = a.rec]
             /\ lastVerdict' = [call |-> "get_cached", sync |-> s.outcome,
                                async |-> a.outcome]
    /\ UNCHANGED <<cfgVars, exit_stacks, now, evSet, nevents, genStored, fnSeen,
                   th, running, started, destroys, cacheLock, wrapVars>>

TwinDestroy ==
    /\ lastVerdict.async # "blocked"
    /\ destroys < MaxDestroys
    /\ destroys' = destroys + 1
    /\ recs' = [recs EXCEPT ![1] = Destroy(@), ![2] = Destroy(@)]
    /\ lastVerdict' = [call |-> "destroy", sync |-> "returned",
                       async |-> "returned"]
    /\ UNCHANGED <<cfgVars, exit_stacks, now, evSet, nevents, calls, genStored,
                   fnSeen, th, running, started, cacheLock, wrapVars>>

TwinIsExpired ==
    /\ lastVerdict.async # "blocked"
    /\ lastVerdict' = [call |-> "is_expired",
                       sync |-> IsExpiredOutcome(recs[1], now),
                       async |-> IsExpiredOutcome(recs[2], now)]
    /\ UNCHANGED <<cfgVars, exit_stacks, now, recVars, th, running, started,
                   destroys, cacheLock, wrapVars>>

InitTwins ==
    /\ variant = "sync"
    /\ now = 0
    /\ fail \in BOOLEAN
    /\ retries = 0
    /\ expiration \in TwinPolicies(ExpirationArgs)
    /\ negative_expiration \in TwinPolicies(NegativeExpirationArgs)
    /\ enabled = TRUE
    /\ maxsize = None
    /\ recs = [r \in Records |-> EmptyRecord]
    /\ wrap_async_exit_stack = FALSE
    /\ exit_stacks = [h \in ExitStacks |-> "unused"]
    /\ evSet = {}
    /\ nevents = 0
    /\ calls = 0
    /\ th = [t \in Callers |-> IdleThread]
    /\ running = None
    /\ started = 0
    /\ destroys = 0
    /\ genStored = [e \in Events |-> NoneValue]
    /\ fnSeen = [raised |-> FALSE, returned |-> FALSE]
    /\ lastVerdict = [call |-> "none", sync |-> "none", async |-> "none"]
    /\ repo = RepoInit(maxsize)
    /\ opLog = <<>>
    /\ cacheLock = None
    /\ hits = 0
    /\ misses = 0
    /\ nrecs = 2
    /\ expiry_period = None
    /\ last_expiration_check = None
    /\ clears = 0
    /\ keysSeen = {}
    /\ overlapped = FALSE
    /\ sweepWake = None
    /\ fetchingAtClear = {}
    /\ destroy_event = FALSE
    /\ destroy_pc = "none"

NextTwins ==
    \/ TwinGetCached
    \/ TwinDestroy
    \/ TwinIsExpired
    \/ Elapse

SpecTwins == InitTwins /\ [][NextTwins]_vars

\* ================================================================== claims
Done(t) == th[t].pc = "done"
Returned(t) == Done(t) /\ th[t].outcome = "returned"

\* The callers inside __store_cache() of record r: the record's fetch.
FetchPcs == {"store_check", "exec", "fn", "store_lock", "store", "store2"}
Fetchers(r) == {t \in Callers : th[t].rec = r /\ th[t].pc \in FetchPcs}

\* No other caller is inside a call.
Solo(t) == \A u \in Callers \ {t} : th[u].pc \in {"idle", "done"}

\* ------------------------------------------------------------------ C1
\* C1: on a record that was never fetched before, whose value does not expire
\* and is not destroyed, concurrent get_cached() callers of a function that
\* returns make it run exactly once, and each of them returns that one result.
SingleFlightCase ==
    /\ expiration.kind = "NonExpiring"
    /\ destroys = 0
    /\ ~fnSeen.raised

ThmC1_SingleFlight ==
    SingleFlightCase =>
        /\ calls <= 1
        /\ \A t \in Callers :
              Done(t) => /\ th[t].outcome = "returned"
                         /\ calls = 1
                         /\ th[t].result = Produced(1, FALSE)

\* Two callers overlapped: one fetched, the other waited on its signal, and
\* both have returned.
WitC1_ProducerAndConsumerReturned ==
    /\ SingleFlightCase
    /\ \E t, u \in Callers :
          /\ Returned(t) /\ th[t].role = "producer"
          /\ Returned(u) /\ th[u].role = "consumer"
          /\ th[u].ev = th[t].ev
          /\ th[t].result = th[u].result

\* ------------------------------------------------------------------ C3
\* C3: at most one caller is inside a record's fetch at any time, and while
\* the fetch has not reached its store step the record's inflight signal is
\* set, for a first fetch and for every refresh, whatever get_cached(),
\* destroy() and is_expired() calls interleave.
ThmC3_OneFetchInFlight ==
    \A r \in Records :
        /\ Cardinality(Fetchers(r)) <= 1
        /\ \A t \in Fetchers(r) :
              th[t].pc \in {"exec", "fn", "store_lock"} => recs[r].inflight # None

\* A refresh is running (the record holds an earlier value) while another
\* caller waits on it.
WitC3_RefreshWithWaiter ==
    \E t, u \in Callers :
        /\ th[t].pc = "fn"
        /\ Rec(t).last_fetched # None
        /\ th[u].pc = "wait" /\ th[u].role = "consumer"
        /\ th[u].ev = th[t].ev

\* ------------------------------------------------------------------ C4
\* C4: a caller that waited on a fetch's inflight signal returns exactly the
\* value the producer of that fetch stored.
CexC4_ConsumerReturnsStoredValue ==
    \A t \in Callers :
        (Returned(t) /\ th[t].role = "consumer")
            => th[t].result = genStored[th[t].ev]

\* ------------------------------------------------------------------ C5
\* C5: with fail set, no get_cached() call returns an error object as an
\* ordinary value: every caller handed an error outcome raises it.
CexC5_NoErrorReturnedWhenFail ==
    \A t \in Callers : (fail /\ Returned(t)) => ~th[t].result.err

\* ------------------------------------------------------------------ C8
\* C8: one fetch calls the function at most retries + 1 times; it gives up
\* with the last error (is_error) after exactly retries + 1 raising attempts,
\* and an attempt that returns ends the fetch with that value.
ThmC8_RetryBudget ==
    \A t \in Callers :
        /\ th[t].ninv <= retries + 1
        /\ th[t].pc \in {"store_lock", "store", "store2"} =>
              /\ th[t].ninv = th[t].retry_iter + 1
              /\ th[t].pendOk => ~th[t].pend.err
              /\ ~th[t].pendOk => /\ th[t].ninv = retries + 1
                                  /\ th[t].pend.err
        /\ (Done(t) /\ th[t].role = "producer" /\ th[t].outcome # "DeadlockError")
              => /\ genStored[th[t].ev].id > 0
                 /\ genStored[th[t].ev].err => fnSeen.raised

\* A fetch with retries gave up: every one of its retries + 1 attempts raised.
WitC8_GaveUpAfterRetries ==
    \E t \in Callers :
        /\ retries >= 1
        /\ th[t].pc = "store_lock"
        /\ ~th[t].pendOk
        /\ th[t].ninv = retries + 1

\* ------------------------------------------------------------------ C9
\* C9: a get_cached() call made while no other caller is active becomes the
\* producer of a fetch exactly when the record was never fetched or the policy
\* chosen by is_error reports the value expired; otherwise it returns the
\* cached value without calling the function.  With non-expiring policies and
\* no destroy(), the record is fetched at most once.
PolicyVerdict(r, t) ==
    IF r.is_error THEN IsValueExpired(negative_expiration, r, t)
    ELSE IsValueExpired(expiration, r, t)

SoloDecision(t) ==
    /\ Solo(t)
    /\ th[t].role = "none"
    /\ th'[t].role # "none"
    /\ ~(th[t].pc = "expiry" /\ Rec(t).last_fetched = None)

SoloDecisionIsRight(t) ==
    SoloDecision(t) =>
        /\ th'[t].role \in {"producer", "cached"}
        /\ th'[t].role = "producer"
              <=> (Rec(t).last_fetched = None \/ PolicyVerdict(Rec(t), now))

SoloCachedReturn(t) ==
    (Solo(t) /\ th[t].pc = "ret" /\ th[t].role = "cached" /\ th'[t].pc = "done")
        => /\ th'[t].outcome = "returned"
           /\ th'[t].result = Rec(t).value
           /\ th'[t].ninv = 0

FetchedOnceWhenNonExpiring ==
    (/\ expiration.kind = "NonExpiring"
     /\ negative_expiration.kind = "NonExpiring"
     /\ destroys = 0) => nevents <= 1

ThmC9_FetchIffUnfetchedOrExpired ==
    /\ []FetchedOnceWhenNonExpiring
    /\ [][\A t \in Callers : SoloDecisionIsRight(t) /\ SoloCachedReturn(t)]_vars

\* Every call of the run is over, the record was fetched once, and a later
\* call returned the cached value without calling the function.
WitC9_LaterCallServedFromCache ==
    /\ expiration.kind = "NonExpiring"
    /\ started = MaxCalls
    /\ nevents = 1
    /\ \A t \in Callers : Done(t)
    /\ \E t \in Callers : th[t].role = "cached" /\ th[t].ninv = 0

\* ------------------------------------------------------------------ C10
\* C10: in a repository with maxsize N > 0, after add() calls of distinct keys
\* and nothing else, exactly the last N added keys are retrievable, each with
\* the value it was added with, and every other key is absent.
AddsOfDistinctKeys ==
    /\ \A i \in 1..Len(opLog) : opLog[i].op = "add"
    /\ \A i, j \in 1..Len(opLog) : opLog[i].key = opLog[j].key => i = j

LastAdded(n) == {i \in 1..Len(opLog) : i > Len(opLog) - n}

ThmC10_LastNRetrievable ==
    (repo.maxsize > 0 /\ AddsOfDistinctKeys) =>
        /\ \A i \in LastAdded(repo.maxsize) :
              /\ RepoHas(repo, opLog[i].key)
              /\ RepoGetNoAdjust(RepoGet(repo, opLog[i].key), opLog[i].key)
                     = opLog[i].value
        /\ \A k \in RepoKeys :
              (\A i \in LastAdded(repo.maxsize) : opLog[i].key # k)
                  => /\ ~RepoHas(repo, k)
                     /\ RepoGetNoAdjust(repo, k) = None
        /\ \A i \in 1..Len(opLog) : opLog[i].out = "ok"

\* maxsize + 2 distinct keys were added: the first two are gone.
WitC10_TwoEvicted ==
    /\ repo.maxsize > 0
    /\ AddsOfDistinctKeys
    /\ Len(opLog) = repo.maxsize + 2
    /\ ~RepoHas(repo, opLog[1].key)
    /\ ~RepoHas(repo, opLog[2].key)
    /\ RepoHas(repo, opLog[Len(opLog)].key)

\* ------------------------------------------------------------------ C2
\* C2: calls of the cached function with one key, a value that does not
\* expire and a function that returns make the function run at most once,
\* overlapping or not, and each of them returns that one result (no
\* cache_clear() or sweep in between).
CexC2_OneInvocationPerKey ==
    (/\ expiration.kind = "NonExpiring"
     /\ ~fnSeen.raised
     /\ clears = 0
     /\ expiry_period = None
     /\ Cardinality(keysSeen) <= 1)
        => /\ calls <= 1
           /\ \A t \in Callers :
                 Done(t) => /\ th[t].outcome = "returned"
                            /\ th[t].result = Produced(1, FALSE)

\* ------------------------------------------------------------------ C6
\* C6: with negative_cache off and a function that only raises, every call of
\* the cached function is a miss that runs the function itself and raises the
\* error of its own run; no record is ever stored in the repository.
NegativeCacheOffCase == ~negative_cache /\ ~fnSeen.returned

ThmC6_ErrorsNeverCached ==
    NegativeCacheOffCase =>
        /\ \A t \in Callers :
              Done(t) => /\ th[t].outcome = "raised"
                         /\ th[t].path = "miss"
                         /\ th[t].ninv = retries + 1
                         /\ th[t].result.err
        /\ \A t, u \in Callers :
              (Done(t) /\ Done(u) /\ t # u) => th[t].result # th[u].result
        /\ \A k \in Keys : ~RepoHas(repo, k)
        /\ hits = 0

\* Two calls with the same key, one after the other, both ran the function
\* and both raised.
WitC6_BothCallsRaised ==
    /\ NegativeCacheOffCase
    /\ ~overlapped
    /\ calls = 2 * (retries + 1)
    /\ \A t \in Callers :
          Done(t) /\ th[t].outcome = "raised" /\ th[t].key = 1

\* ------------------------------------------------------------------ C7
\* C7: with negative_cache on and a function that only raises, a record kept
\* in the repository holds the error as its value; a call that finds the
\* record while the negative policy does not report it expired returns that
\* error as an ordinary result without running the function; and while calls
\* do not overlap and nothing is cleared, swept or evicted, one key costs one
\* fetch, every call returning the error of that fetch.
NegativeCacheOnCase == negative_cache /\ ~fnSeen.returned

StoredRecordHoldsError ==
    \A k \in Keys :
        LET r == RepoGetNoAdjust(repo, k) IN
        (/\ r # None
         /\ recs[r].last_fetched # None
         /\ \A t \in Callers : ~(th[t].rec = r /\ th[t].pc = "store2"))
            => recs[r].is_error /\ recs[r].value.err

HitServedWithStoredError ==
    \A t \in Callers :
        /\ (th[t].path = "hit" /\ th[t].role = "cached" /\ th[t].pc = "ret")
              => Rec(t).is_error /\ Rec(t).value.err
        /\ (th[t].path = "hit" /\ th[t].role = "cached" /\ Done(t))
              => /\ th[t].outcome = "returned"
                 /\ th[t].result.err
                 /\ th[t].ninv = 0

OneFetchPerKey ==
    (/\ negative_expiration.kind = "NonExpiring"
     /\ ~overlapped
     /\ clears = 0
     /\ expiry_period = None
     /\ Cardinality(keysSeen) <= repo.maxsize)
        => /\ calls <= (retries + 1) * Cardinality(keysSeen)
           /\ \A t \in Callers :
                 Done(t) => /\ th[t].outcome = "returned"
                            /\ th[t].result.err
           /\ \A t, u \in Callers :
                 (Done(t) /\ Done(u) /\ th[t].key = th[u].key)
                    => th[t].result = th[u].result

UnexpiredErrorIsAHit(t) ==
    (/\ th[t].path = "hit"
     /\ th[t].pc = "expiry"
     /\ th'[t].pc # "expiry"
     /\ Rec(t).last_fetched # None
     /\ Rec(t).is_error
     /\ ~IsValueExpired(negative_expiration, Rec(t), now))
        => /\ th'[t].role = "cached"
           /\ th'[t].pc = "ret"
           /\ calls' = calls

OnlyAddsAndGets == \A i \in 1..Len(opLog) : opLog[i].op \in {"add", "get"}

\* The keys in order of use, least recently used first, after the first n
\* operations of the log: an add of an absent key and a get of a present key
\* put the key last, an add into a full repository drops the first key.
RECURSIVE Recency(_)
Recency(n) ==
    IF n = 0 THEN <<>>
    ELSE LET before == Recency(n - 1)
             key == opLog[n].key
             present == \E i \in 1..Len(before) : before[i] = key
             others == SelectSeq(before, LAMBDA k : k # key)
         IN IF opLog[n].op = "get"
            THEN IF present THEN Append(others, key) ELSE before
            ELSE IF present THEN before
            ELSE IF repo.maxsize # 0 /\ Len(before) >= repo.maxsize
            THEN Append(Tail(before), key)
            ELSE Append(before, key)

StoredKeys == {k \in RepoKeys : RepoHas(repo, k)}

\* The log ends with get(k) on a present key followed by an add of another key.
ReadThenAdded(k) ==
    LET n == Len(opLog) IN
    /\ n >= 2
    /\ opLog[n - 1].op = "get" /\ opLog[n - 1].key = k
    /\ opLog[n - 1].value # None
    /\ opLog[n].op = "add" /\ opLog[n].key # k

ThmC12_SizeAtMostMaxsize ==
    repo.maxsize > 0 => RepoGetSize(repo) <= repo.maxsize

\* A repository that was filled, lost an entry to filter() and took another
\* add after it.
WitC12_AddAfterFilterOnFull ==
    /\ repo.maxsize = 2
    /\ Len(opLog) = 4
    /\ \A i \in {1, 2, 4} : opLog[i].op = "add" /\ opLog[i].out = "ok"
    /\ Cardinality({opLog[i].key : i \in {1, 2, 4}}) = 3
    /\ opLog[3].op = "filter" /\ opLog[3].out = "none"
    /\ RepoGetSize(repo) = 1

\* --------------------------------------------------------------- claim C13
\* The log holds only add operations.
OnlyAdds == \A i \in 1..Len(opLog) : opLog[i].op = "add"

\* C13: a repository constructed with maxsize 0 rejects every insert: after
\* any sequence of add calls its size is 0 and get finds no key.
CexC13_MaxsizeZeroRejectsInserts ==
    repo.maxsize = 0 /\ OnlyAdds =>
        /\ RepoGetSize(repo) = 0
        /\ \A k \in RepoKeys : RepoGetNoAdjust(repo, k) = None

\* --------------------------------------------------------------- claim C14
\* The calls that have not yet called the user function.
NotYetInvoked == {t \in Callers : th[t].pc \in {"count", "count2", "call"}}

\* C14: for a cached function created with maxsize=0 or enabled=False,
\* after any sequence of calls current_size is 0 and the user function has
\* run exactly once per call: once in every finished call, and once for every
\* call that got as far as calling it, whatever retry_count says.
ThmC14_DisabledRunsEveryCall ==
    (maxsize = 0 \/ ~enabled) =>
        /\ RepoGetSize(repo) = 0
        /\ hits = 0
        /\ \A t \in Callers : Done(t) => th[t].ninv = 1
        /\ calls = started - Cardinality(NotYetInvoked)

\* Two finished calls with the same arguments to a function cached with
\* maxsize=0, enabled=True and a retry: the first raised, both ran it.
WitC14_TwoCallsTwoRuns ==
    /\ maxsize = 0 /\ enabled /\ retries > 0
    /\ \A t \in Callers : Done(t) /\ th[t].key = 1
    /\ \E t \in Callers : th[t].outcome = "raised"
    /\ calls = 2
    /\ RepoGetSize(repo) = 0

\* --------------------------------------------------------------- claim C15
\* C15: a cached function created with a negative maxsize behaves like one
\* created with maxsize=0: current_size is always 0, no call is a hit and the
\* function runs in every call.
CexC15_NegativeMaxsizeDisables ==
    maxsize = NegativeMaxsize =>
        /\ RepoGetSize(repo) = 0
        /\ hits = 0
        /\ \A t \in Callers : Done(t) => th[t].ninv >= 1

\* --------------------------------------------------------------- claim C16
\* C16: Refreshing(interval).is_value_expired on a value fetched at T says
\* not expired at every now < T + interval and expired at every
\* now >= T + interval; on a never-fetched value it says expired.  The same
\* holds when the record asks the policy about its stored success value.
ThmC16_RefreshingBoundary ==
    (/\ expiration.kind = "Refreshing"
     /\ \/ lastVerdict.call = "is_value_expired"
        \/ lastVerdict.call = "is_expired" /\ lastVerdict.last_fetched # None
                                           /\ ~recs[1].is_error) =>
        lastVerdict.outcome =
            IF lastVerdict.last_fetched = None THEN "expired"
            ELSE IF lastVerdict.at >= lastVerdict.last_fetched + expiration.arg
            THEN "expired" ELSE "fresh"

\* One tick before the interval is over the policy says not expired.
WitC16_FreshOneTickBeforeInterval ==
    /\ expiration = Refreshing(MaxInterval)
    /\ lastVerdict.call = "is_value_expired"
    /\ lastVerdict.last_fetched # None
    /\ lastVerdict.at = lastVerdict.last_fetched + MaxInterval - 1
    /\ lastVerdict.outcome = "fresh"

\* --------------------------------------------------------------- claim C17
\* C17: Date(expiry).is_value_expired on a fetched value says expired if and
\* only if last_fetched >= expiry, whatever the current time is; the record
\* gets the same answer about its stored success value.
ThmC17_DateComparesFetchTime ==
    (/\ expiration.kind = "Date"
     /\ lastVerdict.last_fetched # None
     /\ \/ lastVerdict.call = "is_value_expired"
        \/ lastVerdict.call = "is_expired" /\ ~recs[1].is_error) =>
        lastVerdict.outcome =
            IF lastVerdict.last_fetched >= expiration.arg
            THEN "expired" ELSE "fresh"

\* A value fetched before the expiry date is reported not expired after it.
WitC17_FreshAfterExpiryDate ==
    /\ expiration.kind = "Date"
    /\ lastVerdict.call = "is_expired"
    /\ lastVerdict.last_fetched # None
    /\ lastVerdict.last_fetched < expiration.arg
    /\ lastVerdict.at > expiration.arg
    /\ lastVerdict.outcome = "fresh"

\* --------------------------------------------------------------- claim C18
\* C18: is_expired() on a fetched record gives what the negative policy says
\* about the cached value if the cached outcome is an error, and what the
\* success policy says otherwise; so a cached error and a cached success
\* fetched at the same time expire independently.
ThmC18_PolicyChosenByIsError ==
    (lastVerdict.call = "is_expired" /\ lastVerdict.last_fetched # None) =>
        lastVerdict.outcome =
            IF recs[1].is_error
            THEN IsValueExpiredOutcome(negative_expiration, recs[1],
                                       lastVerdict.at)
            ELSE IsValueExpiredOutcome(expiration, recs[1], lastVerdict.at)

\* A cached error is expired by its shorter negative policy at a time when
\* the success policy would still keep a value fetched at the same time.
WitC18_ErrorExpiresFirst ==
    /\ expiration = Refreshing(MaxInterval)
    /\ negative_expiration = Refreshing(1)
    /\ recs[1].is_error
    /\ lastVerdict.call = "is_expired"
    /\ lastVerdict.last_fetched # None
    /\ lastVerdict.at = lastVerdict.last_fetched + 1
    /\ lastVerdict.outcome = "expired"
    /\ IsValueExpiredOutcome(expiration, recs[1], lastVerdict.at) = "fresh"

\* --------------------------------------------------------------- claim C19
\* The object holds a value at the end of the path: every key on the way is a
\* key of a dict.
RECURSIVE ContainsPath(_, _)
ContainsPath(obj, keys) ==
    IF keys = <<>> THEN TRUE
    ELSE /\ obj.type = "dict"
         /\ Head(keys) \in DOMAIN obj.items
         /\ ContainsPath(obj.items[Head(keys)], Tail(keys))

\* The policy the call evaluated.
EvaluatedPolicy ==
    IF lastVerdict.call = "is_value_expired" THEN expiration
    ELSE ApplicablePolicy(recs[1])

\* The call evaluated a policy on a cached value.
PolicyWasEvaluated ==
    \/ lastVerdict.call = "is_value_expired"
    \/ lastVerdict.call = "is_expired" /\ lastVerdict.last_fetched # None
    \/ lastVerdict.call = "get_cached" /\ lastVerdict.outcome # "fetched"
                                       /\ lastVerdict.outcome # "raised"

\* C19: evaluating an attribute-path policy on a cached value that does not
\* contain the path raises ExtractionError, in a direct call, in is_expired()
\* and in get_cached(); it never gives a verdict.
ThmC19_MissingPathRaises ==
    (/\ PolicyWasEvaluated
     /\ EvaluatedPolicy.kind \in {"SyncAttribute", "AsyncAttribute"}
     /\ ~ContainsPath(lastVerdict.value, EvaluatedPolicy.path)) =>
        lastVerdict.outcome = "ExtractionError"

\* is_expired() raised ExtractionError on a stored dict that has the first
\* key of the path but not the last.
WitC19_LastKeyMissing ==
    /\ lastVerdict.call = "is_expired"
    /\ lastVerdict.outcome = "ExtractionError"
    /\ EvaluatedPolicy.kind = "SyncAttribute"
    /\ lastVerdict.value.type = "dict"
    /\ Head(EvaluatedPolicy.path) \in DOMAIN lastVerdict.value.items
    /\ ~ContainsPath(lastVerdict.value, EvaluatedPolicy.path)

\* --------------------------------------------------------------- claim C20
\* A value that is a coroutine function, or a callable whose calls end in one.
RECURSIVE YieldsCoroutineFunction(_)
YieldsCoroutineFunction(value) ==
    \/ value.type = "coroutinefunction"
    \/ value.type = "callable" /\ YieldsCoroutineFunction(value.ret)

\* The value at the end of a path the object contains.
RECURSIVE ValueAt(_, _)
ValueAt(obj, keys) ==
    IF keys = <<>> THEN obj ELSE ValueAt(obj.items[Head(keys)], Tail(keys))

\* The blocking policy that was evaluated resolves to a cooperative one: the
\* predicate returns, or the path leads to, a coroutine function.
ResolvesToAsync ==
    /\ PolicyWasEvaluated
    /\ \/ /\ EvaluatedPolicy.kind = "SyncFunc"
          /\ lastVerdict.last_fetched # None
          /\ YieldsCoroutineFunction(EvaluatedPolicy.ret)
       \/ /\ EvaluatedPolicy.kind = "SyncAttribute"
          /\ ContainsPath(lastVerdict.value, EvaluatedPolicy.path)
          /\ YieldsCoroutineFunction(
                 ValueAt(lastVerdict.value, EvaluatedPolicy.path))

\* C20 (amended): in the blocking variant a record given an async policy is
\* never constructed (InvalidCacheConfig), so it gives no verdict and never
\* invokes the function; a blocking predicate or attribute policy that
\* resolves to an async policy raises InvalidSyncExpirationType whenever it is
\* evaluated and never gives a verdict.
ThmC20_AsyncPolicyRejected ==
    variant = "sync" =>
        /\ (IsAsyncCacheExpiration(expiration)
               \/ IsAsyncCacheExpiration(negative_expiration)) =>
              /\ nrecs = 0
              /\ calls = 0
              /\ lastVerdict.call \notin {"is_expired", "get_cached"}
              /\ lastVerdict.call = "__init__" =>
                    lastVerdict.outcome = "InvalidCacheConfig"
        /\ ResolvesToAsync => lastVerdict.outcome = "InvalidSyncExpirationType"

\* A blocking record whose predicate returns a coroutine function: the first
\* get_cached() fetched, the second one was rejected.
WitC20_RejectedAfterFirstFetch ==
    /\ variant = "sync"
    /\ expiration.kind = "SyncFunc"
    /\ ResolvesToAsync
    /\ lastVerdict.call = "get_cached"
    /\ lastVerdict.outcome = "InvalidSyncExpirationType"
    /\ calls = 1

\* C20 as stated: with a policy that is, or resolves to, an async policy the
\* blocking record is rejected and never invokes the function.
CexC20_FunctionNeverInvoked ==
    (/\ variant = "sync"
     /\ lastVerdict.outcome \in {"InvalidCacheConfig",
                                 "InvalidSyncExpirationType"}) =>
        calls = 0

\* --------------------------------------------------------------- claim C25
\* The log ends with an add of key k made after a clear() or a filter().
AddedAfterRemoval(k) ==
    LET n == Len(opLog) IN
    /\ n >= 1
    /\ opLog[n].op = "add" /\ opLog[n].key = k
    /\ \E i \in 1..(n - 1) : opLog[i].op \in {"clear", "filter"}

\* C25: every repository operation completes without raising (and returns) in
\* every reachable repository state; an add() made after clear() or filter()
\* has removed entries from a repository that had reached maxsize succeeds
\* and makes its key retrievable.
CexC25_RepositoryOperationsTotal ==
    /\ \A i \in 1..Len(opLog) : opLog[i].out \in {"ok", "none"}
    /\ \A k \in RepoKeys :
          AddedAfterRemoval(k) =>
              RepoHas(repo, k) /\ RepoGetNoAdjust(repo, k) # None

\* --------------------------------------------------------------- claim C26
\* C26: the wrapper's lock is never held while a record's fetch runs the user
\* function, for a first fetch and for the refresh of an expired record found
\* in the repository, so that a call with another key can take the lock.
CexC26_LockFreeDuringFetch ==
    \A t \in Callers : th[t].pc \in {"exec", "fn"} => cacheLock # t

\* --------------------------------------------------------------- claim C27
\* The cached state of record r: value, is_error and last_fetched.
CachedState(r) == <<recs[r].value, recs[r].is_error, recs[r].last_fetched>>

\* C27: every step that changes a record's cached state, the destroy() made
\* by cache_clear() and by a sweep included, is taken while that record's lock
\* is held.
CexC27_MutationsUnderRecordLock ==
    [][\A r \in Records :
          CachedState(r)' # CachedState(r) => recs[r].lock # None]_vars

\* --------------------------------------------------------------- claim C22
\* What remove_expired() must have done to the record stored under key k:
\* an expired record is gone from the repository and destroyed, any other
\* record is still the one retrieved under k.
SweptRight(k) ==
    LET r == RepoGetNoAdjust(repo, k) IN
    r # None =>
        IF IsExpired(recs[r], now)
        THEN /\ ~RepoHas(repo', k)
             /\ recs'[r].last_fetched = None
             /\ recs'[r].value = NoneValue
        ELSE /\ RepoGetNoAdjust(repo', k) = r
             /\ recs'[r] = recs[r]

\* C22: after remove_expired() returns, every record that was expired when
\* the sweep ran has been removed from the repository and destroyed, and
\* every record that was not expired is still retrievable, in every reachable
\* state of the cache.
CexC22_SweepRemovesExactlyExpired ==
    [][RemoveExpired => \A k \in Keys : SweptRight(k)]_vars

\* --------------------------------------------------------------- claim C23
\* Caller t's call makes its step under the wrapper's lock: the scheduled
\* sweep, if due, and the lookup.
LooksUp(t) == th[t].pc = "lookup" /\ th'[t].pc # "lookup"

\* The step ran __remove_expired(): the time of the last sweep was set.
Swept == last_expiration_check' # last_expiration_check

\* now - last_expiration_check >= period; the first check is made against the
\* epoch.
PeriodElapsed ==
    \/ last_expiration_check = None
    \/ now - last_expiration_check >= expiry_period

\* Key k holds an expired record and the step leaves it in the repository
\* (or it is the add of another key, which may evict it).
ExpiredStays(k) ==
    LET r == RepoGetNoAdjust(repo, k) IN
    (r # None /\ IsExpired(recs[r], now)) =>
        \/ RepoGetNoAdjust(repo', k) = r
        \/ \E t \in Callers : /\ th[t].pc = "add" /\ th'[t].pc = "done"
                              /\ th[t].key # k

ClearedRight ==
    /\ RepoGetSize(repo') = 0
    /\ \A k \in Keys : RepoGetNoAdjust(repo', k) = None
    /\ hits' = 0
    /\ misses' = 0
    /\ \A r \in RepoValues(repo) :
          /\ recs'[r].last_fetched = None
          /\ recs'[r].value = NoneValue
          /\ ~recs'[r].is_error

\* A call that looks its key up in an empty repository is a miss: it counts a
\* miss and makes a record of its own.
MissesWhenEmpty(t) ==
    (LooksUp(t) /\ RepoGetSize(repo) = 0) =>
        /\ th'[t].path = "miss"
        /\ th'[t].rec = nrecs + 1
        /\ misses' = misses + 1

AllCallsFinished ==
    /\ cacheLock = None
    /\ \A t \in Callers : th[t].pc \in {"idle", "done"}

\* C30: once cache_clear() and the fetches that were in flight when it ran
\* have all finished, the repository holds no record produced by one of those
\* fetches.
CexC30_InFlightResultNotCached ==
    AllCallsFinished => fetchingAtClear \cap RepoValues(repo) = {}

\* --------------------------------------------------------------- claim C24
\* C24: a call of the cached function never ends in an exception raised by
\* the sweep it triggered: no call ends at the lookup, before get_cached() was
\* reached, with an exception.
CexC24_SweepNeverRaises ==
    \A t \in Callers :
        (Done(t) /\ th[t].path = "wrapper") => th[t].outcome = "returned"

\* --------------------------------------------------------------- claim C28
\* Caller t abandons its wait in this step.
Abandons(t) == th[t].pc = "wait" /\ th'[t].outcome = "CancelledError"

\* The abandonment changes no record, signal or stored result, nor any
\* other caller.
AbandonChangesNothing(t) ==
    Abandons(t) =>
        /\ recs' = recs
        /\ evSet' = evSet
        /\ genStored' = genStored
        /\ \A u \in Callers \ {t} : th'[u] = th[u]

\* Caller t waited as a consumer on a signal and gave up.
GaveUpOn(t, e) ==
    Done(t) /\ th[t].outcome = "CancelledError" /\ th[t].ev = e

\* A consumer that stayed returned what the fetch it waited for had stored.
WaiterGotResult(t) ==
    (Returned(t) /\ th[t].role = "consumer") =>
        /\ th[t].ev \in evSet
        /\ th[t].result = genStored[th[t].ev]
        /\ th[t].result = recs[th[t].rec].value

\* C28: a consumer that abandons its wait changes no record state; the fetch
\* it waited for still completes, stores its result and sets the signal, and
\* every waiter that is still waiting then goes on and returns that result.
ThmC28_AbandonedWaitLeavesFetchAlone ==
    /\ [][\A t \in Callers : AbandonChangesNothing(t)]_vars
    /\ [](\A t \in Callers : WaiterGotResult(t))
    /\ \A e \in Events :
          (\E t \in Callers : GaveUpOn(t, e))
              ~> (e \in evSet /\ recs[1].last_fetched # None
                    /\ recs[1].value = genStored[e])
    /\ \A t \in Callers :
          (th[t].pc = "wait" /\ \E u \in Callers \ {t} : GaveUpOn(u, th[t].ev))
              ~> (Done(t) /\ th[t].outcome # "none")

\* Three calls and one fetch: the producer's call, a consumer's call that
\* gave up while the fetch was in flight (it neither fetched nor could have
\* returned before the signal was set), and a later consumer's call that
\* waited on the same signal and returned the fetch's result.
WitC28_OtherWaiterReturned ==
    \E t, u \in Callers :
        /\ t # u
        /\ started = MaxCalls
        /\ nevents = 1
        /\ th[u].role = "producer"
        /\ Returned(u)
        /\ Returned(t)
        /\ th[t].role = "consumer"
        /\ th[t].ev = th[u].ev
        /\ th[t].result = genStored[th[t].ev]
        /\ th[t].result = th[u].result

\* --------------------------------------------------------------- claim C29
\* C29: once destroy() has been called (destroy_event is set) the background
\* task performs no further sweep.
CexC29_NoSweepAfterDestroy == [][AsyncSweep => ~destroy_event]_vars

\* --------------------------------------------------------------- claim C33
\* What filter(condition) must leave when the condition holds exactly for the
\* values in `keep`: the entries with such a value, and no other.
FilteredRight(keep) ==
    /\ \A k \in RepoKeys :
          RepoHas(repo', k) <=>
              (RepoHas(repo, k) /\ RepoGetNoAdjust(repo, k) \in keep)
    /\ \A k \in RepoKeys :
          RepoHas(repo', k) => RepoGetNoAdjust(repo', k) = RepoGetNoAdjust(repo, k)
    /\ RepoGetSize(repo') =
          RepoGetSize(repo)
            - Cardinality({k \in RepoKeys :
                            RepoHas(repo, k) /\ RepoGetNoAdjust(repo, k) \notin keep})

\* C33: filter(p) removes exactly the stored entries for which p is false and
\* leaves every other entry retrievable, the size reduced by the number
\* removed.
CexC33_FilterRemovesExactlyFalse ==
    [][\A keep \in SUBSET Results : FilterOp(keep) => FilteredRight(keep)]_vars

\* --------------------------------------------------------------- claim C36
\* The keys of the links met from the root's neighbour to the root, following
\* NEXT or PREV.
RECURSIVE KeysAlong(_, _, _, _)
KeysAlong(rp, link, field, fuel) ==
    IF link = rp.root \/ fuel = 0 THEN {}
    ELSE {rp.nodes[link].key}
           \cup KeysAlong(rp,
                          IF field = "NEXT" THEN rp.nodes[link].next
                          ELSE rp.nodes[link].prev,
                          field, fuel - 1)
NextKeys(rp) == KeysAlong(rp, rp.nodes[rp.root].next, "NEXT", Len(rp.nodes))
PrevKeys(rp) == KeysAlong(rp, rp.nodes[rp.root].prev, "PREV", Len(rp.nodes))
DictKeys(rp) == {k \in RepoKeys : RepoHas(rp, k)}

\* Every operation made so far returned.
AllOperationsReturned ==
    \A i \in 1..Len(opLog) : opLog[i].out \in {"ok", "none"}

\* C36: after any sequence of operations that returned, the keys reached by
\* NEXT links from the root, the keys reached by PREV links and the keys of
\* the dict are the same set.
CexC36_LinksAgreeWithDict ==
    AllOperationsReturned =>
        /\ NextKeys(repo) = DictKeys(repo)
        /\ PrevKeys(repo) = DictKeys(repo)

\* --------------------------------------------------------------- claim C34
\* The calls that have not reached the statement that counts them.
NotYetCounted == {t \in Callers : th[t].pc \in {"lookup", "count", "count2"}}

\* C34: every call increments exactly one of hits and misses, so with no
\* cache_clear() made, hits + misses is the number of calls that have got as
\* far as the counting statement.
CexC34_EveryCallCounted ==
    clears = 0 => hits + misses = started - Cardinality(NotYetCounted)

\* --------------------------------------------------------------- claim C35
\* The producer of a fetch between the creation of its signal and the step
\* that clears it.
HoldsSignal(t) ==
    /\ th[t].role = "producer"
    /\ th[t].pc \in {"store_check", "exec", "fn", "store_lock", "store"}

\* C35: no call ends in DeadlockError, and from the step in which a producer
\* sets the record's inflight signal until that producer clears it, inflight
\* is that same signal, whatever get_cached(), destroy() and is_expired()
\* calls interleave.
ThmC35_InflightKeptUntilStored ==
    \A t \in Callers :
        /\ th[t].outcome # "DeadlockError"
        /\ HoldsSignal(t) => Rec(t).inflight = th[t].ev

\* destroy() reset the record while a refresh was in flight, and the
\* producer of that refresh went on past the check of __store_cache() to the
\* user function with its signal still in place.
WitC35_DestroyedDuringRefresh ==
    /\ destroys = 1
    /\ fetchingAtClear = {1}
    /\ recs[1].last_fetched = None
    /\ \E t \in Callers :
          /\ HoldsSignal(t)
          /\ th[t].pc = "fn"
          /\ recs[1].inflight = th[t].ev

\* --------------------------------------------------------------- claim C37
\* Caller t is inside a call of get_cached().
InCall(t) == th[t].pc \notin {"idle", "done"}

InsideLockedRegion(t) == th[t].pc \in {"check", "expiry", "store", "store2"}

\* C39: when the expiration policy raises inside get_cached(), the record's
\* lock is released before the error propagates: no record's lock is owned by
\* a caller that is not inside get_cached()'s locked region, so a later
\* get_cached() on that record by any caller can acquire it.
CexC39_LockReleasedOnPolicyError ==
    \A r \in Records :
        recs[r].lock # None =>
            /\ ~recs[r].leaked
            /\ th[recs[r].lock].rec = r
            /\ InsideLockedRegion(recs[r].lock)


\* --------------------------------------------------------------- claim C40
\* The records that a step takes out of the repository.
LeavingRepository == RepoValues(repo) \ RepoValues(repo')

\* C40: no record leaves the repository without destroy() being called on it:
\* a step that takes a record out of the repository, the eviction made by
\* add() on a full repository included, leaves that record in its empty
\* form.
CexC40_EvictedRecordDestroyed ==
    [][\A r \in LeavingRepository : recs'[r].last_fetched = None]_vars


\* --------------------------------------------------------------- claim C38
\* C38: a fetch that is aborted without an ordinary result still clears the
\* record's inflight and sets the signal: once a producer's call is over,
\* however it ended, the signal it created is set and is no longer the
\* record's inflight, so nobody waits on it forever.
CexC38_AbortedFetchSignalsWaiters ==
    \A t \in Callers :
        (Done(t) /\ th[t].role = "producer") =>
            /\ th[t].ev \in evSet
            /\ recs[th[t].rec].inflight # th[t].ev


\* --------------------------------------------------------------- claim C32
\* The exit stack h backs record r's current value.
Backs(h, r) == recs[r].exit_stack = h /\ recs[r].value.id = h

\* C32: every exit stack a record acquires is released when its value is
\* replaced or the record destroyed, never earlier and never later: the
\* stack a record holds has not been closed, and every stack that is entered
\* and not closed backs the current value of a record.
CexC32_ExitStackReleasedWithValue ==
    /\ \A r \in Records :
          recs[r].exit_stack # None =>
              exit_stacks[recs[r].exit_stack] = "entered"
    /\ \A h \in ExitStacks :
          exit_stacks[h] = "entered" => \E r \in Records : Backs(h, r)


\* --------------------------------------------------------------- claim C31
\* C31: the blocking and the cooperative record, driven by the same sequence
\* of get_cached(), destroy() and is_expired() calls with the same function
\* outcomes and the same clock, end every call the same way and hold the
\* same state after it: last_fetched, is_error, value and inflight.
CexC31_TwinRecordsAgree ==
    /\ lastVerdict.sync = lastVerdict.async
    /\ recs[1].last_fetched = recs[2].last_fetched
    /\ recs[1].is_error = recs[2].is_error
    /\ recs[1].value = recs[2].value
    /\ recs[1].inflight = recs[2].inflight

====
